---- MODULE Spec2Model ----
(***************************************************************************)
(* Forensic fund-tracking engine: the ledger-integrity validator, the two  *)
(* fund trackers (FIFO and Balance-Method) and the investment pools.       *)
(*                                                                         *)
(* Money.  The program computes on binary floating point.  The model holds *)
(* money as an integer count of 1/CENT of a cent (1e-4 of a currency unit) *)
(* and a ratio as an integer count of 1/RATIO_ONE; every product and       *)
(* quotient rounds to the nearest such unit, which stands for the float's  *)
(* rounding error.  Ledger amounts are whole cents (multiples of CENT).    *)
(***************************************************************************)
EXTENDS Integers, Sequences, FiniteSets, TLC

\* ------------------------------------------------------------------ bounds
\* number of tracker operations in one run of Spec
MaxOps == 4
\* number of ledger rows in one run of SpecPipeline
MaxRows == 3
\* number of ledger rows handed to the validator in SpecValidator
MaxRowsV == 4
\* calls of the validator in one run (the second one on a repaired sequence)
MaxCalls == 2

\* ------------------------------------------------------------- arithmetic
\* Config.PRECISION: decimals kept by format_number
PRECISION == 2
\* units of the model in one cent (0.01)
CENT == 10 ^ PRECISION
\* Config.BALANCE_TOLERANCE and FlowIntegrityValidator.tolerance: 0.01
BALANCE_TOLERANCE == CENT
\* the ratio 1.0
RATIO_ONE == 10 ^ 5

Abs(x) == IF x < 0 THEN -x ELSE x
Min(a, b) == IF a <= b THEN a ELSE b
Max(a, b) == IF a >= b THEN a ELSE b

\* n / d rounded to the nearest unit (d > 0)
RoundDiv(n, d) ==
  IF n >= 0 THEN (2 * n + d) \div (2 * d) ELSE -((2 * (-n) + d) \div (2 * d))

\* the float quotient a / b as a ratio
Ratio(a, b) == RoundDiv(a * RATIO_ONE, b)
\* the float product amount * ratio
MulRatio(x, r) == RoundDiv(x * r, RATIO_ONE)

\* Config.format_number / FIFO 格式化数值: round(value, 2), halves to even
format_number(value) ==
  LET q == value \div CENT
      r == value % CENT
  IN  IF 2 * r < CENT THEN q * CENT
      ELSE IF 2 * r > CENT THEN (q + 1) * CENT
      ELSE IF q % 2 = 0 THEN q * CENT ELSE (q + 1) * CENT

\* ------------------------------------------------------ fund attributes
\* "个人应付", "公司应付", a label with neither keyword, and the pool "理财-A"
PersonalLabels == {"personal_payable"}
CompanyLabels == {"company_payable"}
\* "个人" and "公司": labels that hold the bare keyword only
BarePersonalLabels == {"personal"}
BareCompanyLabels == {"company"}
OtherLabels == {"other"}
PoolKeys == {"wm-A"}
Labels == PersonalLabels \cup CompanyLabels \cup OtherLabels \cup PoolKeys

\* Config.is_investment_product and FIFO 解析投资产品编号: "<prefix>-<id>"
is_investment_product(fund_attribute) == fund_attribute \in PoolKeys
\* Config.is_personal_fund: the label contains a personal keyword
is_personal_fund(fund_attribute) ==
  fund_attribute \in PersonalLabels \cup BarePersonalLabels
\* Config.is_company_fund: the label contains a company keyword
is_company_fund(fund_attribute) ==
  fund_attribute \in CompanyLabels \cup BareCompanyLabels
\* FIFO 处理资金流入: '个人应收' in s or '个人应付' in s
is_personal_receivable(fund_attribute) == fund_attribute \in PersonalLabels
\* FIFO 处理资金流入: '公司应收' in s or '公司应付' in s
is_company_receivable(fund_attribute) == fund_attribute \in CompanyLabels
\* BehaviorAnalyzer._判断资金属性类型 and FIFO 判断资金属性类型
fund_attribute_type(fund_attribute) ==
  IF is_personal_fund(fund_attribute) THEN "personal"
  ELSE IF is_company_fund(fund_attribute) THEN "company"
  ELSE "other"

\* ------------------------------------------------------ investment pools
\* a pool key that never received a contribution
NoPool ==
  [exists |-> FALSE, total_amount |-> 0, personal_amount |-> 0,
   company_amount |-> 0, cumulative_purchase |-> 0,
   cumulative_redemption |-> 0, personal_ratio |-> 0, company_ratio |-> 0,
   realized_profit_history |-> <<>>, cumulative_realized_profit |-> 0]

\* InvestmentProductManager.创建投资产品: all fields zero
CreatePool == [NoPool EXCEPT !.exists = TRUE]

\* a tracker as its constructor leaves it
NewTracker(alg) ==
  [algorithm |-> alg, personal_balance |-> 0, company_balance |-> 0,
   initialized |-> FALSE, queue |-> <<>>,
   misuse |-> 0, advance |-> 0,
   returned_company_principal |-> 0, returned_personal_principal |-> 0,
   personal_profit_share |-> 0, company_profit_share |-> 0,
   pools |-> [k \in PoolKeys |-> NoPool]]

\* what an operation hands back: the tracker after it and the returned tuple
Result(t, pr, cr, label) ==
  [tracker |-> t, personal_ratio |-> pr, company_ratio |-> cr, label |-> label]

\* one clause of a behaviour label
Clause(kind, amount) == <<kind, amount>>
ClauseIf(cond, kind, amount) == IF cond THEN <<Clause(kind, amount)>> ELSE <<>>

\* BehaviorAnalyzer.分析行为性质 / FIFO 分析行为性质: the label of a debit
BehaviorLabel(fund_attribute, personal_deducted, company_deducted) ==
  LET type == fund_attribute_type(fund_attribute)
      label ==
        IF type = "personal"
        THEN ClauseIf(company_deducted > 0, "misuse", company_deducted)
             \o ClauseIf(personal_deducted > 0, "personal_payment", personal_deducted)
        ELSE IF type = "company"
        THEN ClauseIf(personal_deducted > 0, "advance", personal_deducted)
             \o ClauseIf(company_deducted > 0, "company_payment", company_deducted)
        ELSE ClauseIf(personal_deducted > 0, "personal_payment", personal_deducted)
             \o ClauseIf(company_deducted > 0, "company_payment", company_deducted)
  IN  IF label = <<>> THEN <<Clause("no_clear_behavior", 0)>> ELSE label

\* the label of an investment debit
InvestLabel(personal_deducted, company_deducted) ==
  LET label == ClauseIf(company_deducted > 0, "invest_misuse", company_deducted)
               \o ClauseIf(personal_deducted > 0, "personal_invest", personal_deducted)
  IN  IF label = <<>> THEN <<Clause("no_investment", 0)>> ELSE label

\* InvestmentProductManager.更新投资产品 (the same statements are inlined in
\* FIFO 处理资金流出): a contribution of amount split by the given ratios
UpdateInvestmentProduct(pool, amount, personal_ratio, company_ratio) ==
  LET p0 == IF pool.exists THEN pool ELSE CreatePool
      personal_amount == MulRatio(amount, personal_ratio)
      company_amount == MulRatio(amount, company_ratio)
      p1 == IF p0.total_amount < 0
            THEN [p0 EXCEPT !.personal_amount = personal_amount,
                            !.company_amount = company_amount,
                            !.total_amount = amount,
                            !.personal_ratio = personal_ratio,
                            !.company_ratio = company_ratio]
            ELSE LET pa == p0.personal_amount + personal_amount
                     ca == p0.company_amount + company_amount
                     ta == p0.total_amount + amount
                 IN  [p0 EXCEPT !.personal_amount = pa,
                                !.company_amount = ca,
                                !.total_amount = ta,
                                !.personal_ratio =
                                   IF ta > 0 THEN Ratio(pa, ta) ELSE @,
                                !.company_ratio =
                                   IF ta > 0 THEN Ratio(ca, ta) ELSE @]
  IN  [p1 EXCEPT !.cumulative_purchase = @ + amount]

\* InvestmentProductManager.处理投资产品赎回 (inlined in FIFO 处理投资产品赎回):
\* the pool after a redemption, the two returns and the realized gain;
\* ok is FALSE when the pool has no valid ratios and nothing was changed
RedeemInvestmentProduct(pool, amount) ==
  LET rp == pool.personal_ratio
      rc == pool.company_ratio
      personal_return == MulRatio(amount, rp)
      company_return == MulRatio(amount, rc)
  IN  IF rp = 0 /\ rc = 0
      THEN [ok |-> FALSE, pool |-> pool, personal_return |-> 0,
            company_return |-> 0, gain |-> 0]
      ELSE IF pool.total_amount > 0
      THEN LET redeem_ratio == Ratio(amount, pool.total_amount)
               matched_cost == MulRatio(pool.total_amount, redeem_ratio)
           IN  [ok |-> TRUE,
                pool |-> [pool EXCEPT
                   !.personal_amount = @ - MulRatio(@, redeem_ratio),
                   !.company_amount = @ - MulRatio(@, redeem_ratio),
                   !.total_amount = @ - matched_cost,
                   !.cumulative_redemption = @ + amount],
                personal_return |-> personal_return,
                company_return |-> company_return,
                gain |-> amount - matched_cost]
      ELSE [ok |-> TRUE,
            pool |-> [pool EXCEPT
               !.personal_amount = @ - personal_return,
               !.company_amount = @ - company_return,
               !.total_amount = @ - amount,
               !.cumulative_redemption = @ + amount],
            personal_return |-> personal_return,
            company_return |-> company_return,
            gain |-> amount]

\* --------------------------------------------- Balance-Method tracker
\* BalanceMethodTracker.初始化余额 and FIFO 初始化余额 (the FIFO one also
\* enqueues the opening slice, with no timestamp)
\* an initialisation that does not look at the initialized flag
InitializeBalance_Again(t, opening_balance, owner) ==
  IF opening_balance > 0
  THEN LET t1 == IF owner = "company"
                 THEN [t EXCEPT !.company_balance = opening_balance]
                 ELSE [t EXCEPT !.personal_balance = opening_balance]
           t2 == IF t.algorithm = "FIFO"
                 THEN [t1 EXCEPT !.queue = Append(@,
                         [amount |-> opening_balance, owner |-> owner, ts |-> 0])]
                 ELSE t1
       IN  [t2 EXCEPT !.initialized = TRUE]
  ELSE t
InitializeBalance(t, opening_balance, owner) ==
  IF ~t.initialized /\ opening_balance > 0
  THEN LET t1 == IF owner = "company"
                 THEN [t EXCEPT !.company_balance = opening_balance]
                 ELSE [t EXCEPT !.personal_balance = opening_balance]
           t2 == IF t.algorithm = "FIFO"
                 THEN [t1 EXCEPT !.queue = Append(@,
                         [amount |-> opening_balance, owner |-> owner, ts |-> 0])]
                 ELSE t1
       IN  [t2 EXCEPT !.initialized = TRUE]
  ELSE t

\* BalanceMethodTracker.处理资金流入
BM_ProcessCredit(t, amount, fund_attribute) ==
  IF amount <= 0 THEN Result(t, 0, 0, <<>>)
  ELSE IF is_personal_fund(fund_attribute)
  THEN Result([t EXCEPT !.personal_balance = @ + amount], RATIO_ONE, 0,
              <<Clause("personal_inflow", amount)>>)
  ELSE IF is_company_fund(fund_attribute)
  THEN Result([t EXCEPT !.company_balance = @ + amount], 0, RATIO_ONE,
              <<Clause("company_inflow", amount)>>)
  ELSE LET total_balance == t.personal_balance + t.company_balance
       IN  IF total_balance = 0
           THEN LET half == RoundDiv(amount, 2)
                IN  Result([t EXCEPT !.personal_balance = @ + half,
                                     !.company_balance = @ + half],
                           RATIO_ONE \div 2, RATIO_ONE \div 2,
                           <<Clause("mixed_inflow", amount)>>)
           ELSE LET pr == Ratio(t.personal_balance, total_balance)
                    cr == Ratio(t.company_balance, total_balance)
                IN  Result([t EXCEPT !.personal_balance = @ + MulRatio(amount, pr),
                                     !.company_balance = @ + MulRatio(amount, cr)],
                           pr, cr, <<Clause("mixed_inflow", amount)>>)

\* a deduction that takes the whole amount from the matching balance, with no
\* clamp to what the balance holds
BM_Deduction_Unclamped(t, amount, fund_attribute) ==
  IF is_company_fund(fund_attribute) /\ ~is_personal_fund(fund_attribute)
  THEN [personal |-> 0, company |-> amount]
  ELSE [personal |-> amount, company |-> 0]

\* the deduction order of BalanceMethodTracker._处理普通资金流出: the pool that
\* matches the attribute class first, the other one for the remainder
\* deductions that take the company balance first whatever the attribute
BM_Deduction_CompanyFirst(t, amount, fund_attribute) ==
  LET cd == Min(amount, t.company_balance)
      pd == Min(amount - cd, t.personal_balance)
  IN  [personal |-> pd, company |-> cd]

\* deductions that take the personal balance first whatever the attribute
BM_Deduction_PersonalFirst(t, amount, fund_attribute) ==
  LET pd == Min(amount, t.personal_balance)
      cd == Min(amount - pd, t.company_balance)
  IN  [personal |-> pd, company |-> cd]

BM_Deduction(t, amount, fund_attribute) ==
  IF is_company_fund(fund_attribute) /\ ~is_personal_fund(fund_attribute)
  THEN LET cd == Min(amount, t.company_balance)
           pd == Min(amount - cd, t.personal_balance)
       IN  [personal |-> pd, company |-> cd]
  ELSE LET pd == Min(amount, t.personal_balance)
           cd == Min(amount - pd, t.company_balance)
       IN  [personal |-> pd, company |-> cd]

\* BalanceMethodTracker._处理普通资金流出
BM_OrdinaryDebit(t, amount, fund_attribute) ==
  IF t.personal_balance + t.company_balance <= 0
  THEN Result(t, 0, 0, <<Clause("pool_empty", amount)>>)
  ELSE LET d == BM_Deduction(t, amount, fund_attribute)
           pd == d.personal
           cd == d.company
           gap == amount - pd - cd
           misuse == IF is_personal_fund(fund_attribute) /\ cd > 0
                     THEN t.misuse + cd ELSE t.misuse
           advance == IF ~is_personal_fund(fund_attribute)
                         /\ is_company_fund(fund_attribute) /\ pd > 0
                      THEN t.advance + pd ELSE t.advance
           t1 == [t EXCEPT !.personal_balance = @ - pd,
                           !.company_balance = @ - cd,
                           !.misuse = format_number(misuse),
                           !.advance = format_number(advance)]
       IN  Result(t1,
                  IF pd + cd > 0 THEN Ratio(pd, amount) ELSE 0,
                  IF pd + cd > 0 THEN Ratio(cd, amount) ELSE 0,
                  BehaviorLabel(fund_attribute, pd, cd)
                  \o ClauseIf(gap > BALANCE_TOLERANCE, "shortfall", gap))

\* a pool update that books the two parts of a contribution the wrong way
\* round
BM_UpdatePool_Swapped(pool, amount, personal_ratio, company_ratio) ==
  LET p0 == IF pool.exists THEN pool ELSE CreatePool
      ta == p0.total_amount + amount
      pa == p0.personal_amount + MulRatio(amount, company_ratio)
      ca == p0.company_amount + MulRatio(amount, personal_ratio)
  IN  [p0 EXCEPT !.total_amount = ta,
                 !.cumulative_purchase = @ + amount,
                 !.personal_amount = pa,
                 !.company_amount = ca,
                 !.personal_ratio = IF ta > 0 THEN Ratio(pa, ta) ELSE @,
                 !.company_ratio = IF ta > 0 THEN Ratio(ca, ta) ELSE @]

\* BalanceMethodTracker._更新投资产品资金池
BM_UpdatePool(pool, amount, personal_ratio, company_ratio) ==
  LET p0 == IF pool.exists THEN pool ELSE CreatePool
      ta == p0.total_amount + amount
      pa == p0.personal_amount + MulRatio(amount, personal_ratio)
      ca == p0.company_amount + MulRatio(amount, company_ratio)
  IN  [p0 EXCEPT !.total_amount = ta,
                 !.cumulative_purchase = @ + amount,
                 !.personal_amount = pa,
                 !.company_amount = ca,
                 !.personal_ratio = IF ta > 0 THEN Ratio(pa, ta) ELSE @,
                 !.company_ratio = IF ta > 0 THEN Ratio(ca, ta) ELSE @]

\* an investment debit that overwrites the misuse counter with this row's
\* company deduction instead of adding to it
BM_InvestmentDebit_Overwrite(t, amount, fund_attribute) ==
  LET pd == Min(amount, t.personal_balance)
      cd == Min(amount - pd, t.company_balance)
      pr == Ratio(pd, amount)
      cr == Ratio(cd, amount)
      t1 == [t EXCEPT !.personal_balance = @ - pd,
                      !.company_balance = @ - cd,
                      !.misuse = IF cd > 0 THEN format_number(cd) ELSE @,
                      !.pools[fund_attribute] = BM_UpdatePool(@, amount, pr, cr)]
  IN  Result(t1, pr, cr, InvestLabel(pd, cd))

\* an investment debit that calls misuse whatever the personal balance did
\* not cover, whether or not company money paid for it
BM_InvestmentDebit_MisuseUncovered(t, amount, fund_attribute) ==
  LET pd == Min(amount, t.personal_balance)
      cd == Min(amount - pd, t.company_balance)
      pr == Ratio(pd, amount)
      cr == Ratio(cd, amount)
      t1 == [t EXCEPT !.personal_balance = @ - pd,
                      !.company_balance = @ - cd,
                      !.misuse = format_number(@ + (amount - pd)),
                      !.pools[fund_attribute] = BM_UpdatePool(@, amount, pr, cr)]
  IN  Result(t1, pr, cr, InvestLabel(pd, cd))

\* BalanceMethodTracker._处理投资产品申购
\* an investment debit that draws company money into the pool without
\* counting it as misuse
BM_InvestmentDebit_NoMisuse(t, amount, fund_attribute) ==
  LET pd == Min(amount, t.personal_balance)
      cd == Min(amount - pd, t.company_balance)
      pr == Ratio(pd, amount)
      cr == Ratio(cd, amount)
      t1 == [t EXCEPT !.personal_balance = @ - pd,
                      !.company_balance = @ - cd,
                      !.pools[fund_attribute] = BM_UpdatePool(@, amount, pr, cr)]
  IN  Result(t1, pr, cr, InvestLabel(pd, cd))

BM_InvestmentDebit(t, amount, fund_attribute) ==
  LET pd == Min(amount, t.personal_balance)
      cd == Min(amount - pd, t.company_balance)
      pr == Ratio(pd, amount)
      cr == Ratio(cd, amount)
      t1 == [t EXCEPT !.personal_balance = @ - pd,
                      !.company_balance = @ - cd,
                      !.misuse = IF cd > 0 THEN format_number(@ + cd) ELSE @,
                      !.pools[fund_attribute] = BM_UpdatePool(@, amount, pr, cr)]
  IN  Result(t1, pr, cr, InvestLabel(pd, cd))

\* BalanceMethodTracker.处理资金流出
BM_ProcessDebit(t, amount, fund_attribute) ==
  IF amount <= 0 THEN Result(t, 0, 0, <<>>)
  ELSE IF is_investment_product(fund_attribute)
  THEN BM_InvestmentDebit(t, amount, fund_attribute)
  ELSE BM_OrdinaryDebit(t, amount, fund_attribute)

\* BalanceMethodTracker.处理投资产品赎回
BM_ProcessRedemption(t, amount, fund_attribute) ==
  IF amount <= 0 \/ ~is_investment_product(fund_attribute)
  THEN Result(t, 0, 0, <<>>)
  ELSE IF ~t.pools[fund_attribute].exists
  THEN Result([t EXCEPT !.personal_balance = @ + amount], RATIO_ONE, 0,
              <<Clause("no_purchase_record", amount)>>)
  ELSE
    LET pool == t.pools[fund_attribute]
        pr == pool.personal_ratio
        cr == pool.company_ratio
        personal_return == MulRatio(amount, pr)
        company_return == MulRatio(amount, cr)
        purchase_total == pool.total_amount
        redeem_ratio == IF purchase_total > 0
                        THEN Min(Ratio(amount, purchase_total), RATIO_ONE) ELSE 0
        company_principal == MulRatio(MulRatio(purchase_total, cr), redeem_ratio)
        personal_principal == MulRatio(MulRatio(purchase_total, pr), redeem_ratio)
        credited == purchase_total > 0 /\ company_principal > 0
        pool1 == IF purchase_total > 0
                 THEN [pool EXCEPT
                         !.personal_amount = @ - MulRatio(@, redeem_ratio),
                         !.company_amount = @ - MulRatio(@, redeem_ratio),
                         !.total_amount = @ - Min(amount, purchase_total)]
                 ELSE pool
        pool2 == [pool1 EXCEPT !.cumulative_redemption = @ + amount]
        pool3 == IF pool2.total_amount > 0
                 THEN [pool2 EXCEPT
                         !.personal_ratio = Ratio(pool2.personal_amount, pool2.total_amount),
                         !.company_ratio = Ratio(pool2.company_amount, pool2.total_amount)]
                 ELSE pool2
        gain == Max(0, amount - Min(amount, purchase_total))
        t1 == [t EXCEPT
                 !.personal_balance = @ + personal_return,
                 !.company_balance = @ + company_return,
                 !.returned_company_principal =
                    IF credited THEN format_number(@ + company_principal) ELSE @,
                 !.returned_personal_principal =
                    IF credited /\ pr > 0 THEN format_number(@ + personal_principal) ELSE @,
                 !.personal_profit_share =
                    IF gain > 0 THEN format_number(@ + MulRatio(gain, pr)) ELSE @,
                 !.company_profit_share =
                    IF gain > 0 THEN format_number(@ + MulRatio(gain, cr)) ELSE @,
                 !.pools[fund_attribute] = pool3]
    IN  Result(t1, pr, cr, <<Clause("redemption", amount)>>)

\* ------------------------------------------------------- FIFO tracker
Slice(amount, owner, ts) == [amount |-> amount, owner |-> owner, ts |-> ts]

\* the while loop of FIFO 处理资金流出_普通 / 处理资金流出_投资: pop the head
\* slice; a slice not larger than what remains is consumed whole, a larger
\* one is consumed in part and its rest put back at the head
RECURSIVE FifoDeduct(_, _, _, _)
FifoDeduct(t, remaining, personal_deducted, company_deducted) ==
  IF remaining > 0 /\ Len(t.queue) > 0
  THEN LET head == Head(t.queue)
           rest == Tail(t.queue)
           take == Min(head.amount, remaining)
           queue1 == IF head.amount <= remaining
                     THEN rest
                     ELSE <<Slice(head.amount - remaining, head.owner, head.ts)>> \o rest
           t1 == IF head.owner = "personal"
                 THEN [t EXCEPT !.personal_balance = Max(0, @ - take), !.queue = queue1]
                 ELSE [t EXCEPT !.company_balance = Max(0, @ - take), !.queue = queue1]
       IN  FifoDeduct(t1, remaining - take,
                      IF head.owner = "personal" THEN personal_deducted + take
                                                 ELSE personal_deducted,
                      IF head.owner = "personal" THEN company_deducted
                                                 ELSE company_deducted + take)
  ELSE [tracker |-> t, personal |-> personal_deducted, company |-> company_deducted]

\* a credit that raises the balance and forgets to enqueue the slice
FIFO_ProcessCredit_NoEnqueue(t, amount, fund_attribute, ts) ==
  IF amount <= 0 THEN Result(t, 0, 0, <<>>)
  ELSE IF is_personal_fund(fund_attribute)
  THEN Result([t EXCEPT !.personal_balance = @ + amount],
              RATIO_ONE, 0, <<Clause("personal_inflow", amount)>>)
  ELSE Result([t EXCEPT !.company_balance = @ + amount],
              0, RATIO_ONE, <<Clause("company_inflow", amount)>>)

\* FIFO 处理资金流入
FIFO_ProcessCredit(t, amount, fund_attribute, ts) ==
  IF amount <= 0 THEN Result(t, 0, 0, <<>>)
  ELSE IF is_personal_receivable(fund_attribute)
  THEN Result([t EXCEPT !.personal_balance = @ + amount,
                        !.queue = Append(@, Slice(amount, "personal", ts))],
              RATIO_ONE, 0, <<Clause("personal_inflow", amount)>>)
  ELSE IF is_company_receivable(fund_attribute)
  THEN Result([t EXCEPT !.company_balance = @ + amount,
                        !.queue = Append(@, Slice(amount, "company", ts))],
              0, RATIO_ONE, <<Clause("company_inflow", amount)>>)
  ELSE LET total_balance == t.personal_balance + t.company_balance
           pr == IF total_balance = 0 THEN RATIO_ONE \div 2
                 ELSE Ratio(t.personal_balance, total_balance)
           cr == IF total_balance = 0 THEN RATIO_ONE \div 2
                 ELSE Ratio(t.company_balance, total_balance)
           personal_amount == IF total_balance = 0 THEN RoundDiv(amount, 2)
                              ELSE MulRatio(amount, pr)
           company_amount == IF total_balance = 0 THEN RoundDiv(amount, 2)
                             ELSE MulRatio(amount, cr)
       IN  Result([t EXCEPT !.personal_balance = @ + personal_amount,
                            !.company_balance = @ + company_amount,
                            !.queue = @ \o <<Slice(personal_amount, "personal", ts),
                                             Slice(company_amount, "company", ts)>>],
                  pr, cr, <<Clause("mixed_inflow", amount)>>)

\* FIFO 处理资金流出_普通
FIFO_OrdinaryDebit(t, amount, fund_attribute, ts) ==
  LET total_available == t.personal_balance + t.company_balance
  IN  IF amount <= 0 THEN Result(t, 0, 0, <<>>)
      ELSE IF total_available <= 0
      THEN Result(t, 0, 0, <<Clause("pool_empty", amount)>>)
      ELSE
        LET deducted_amount == Min(amount, total_available)
            gap == amount - deducted_amount
            \* an empty queue with money left in the balances is rebuilt
            t0 == IF Len(t.queue) = 0
                  THEN [t EXCEPT !.queue =
                          (IF t.personal_balance > 0
                           THEN <<Slice(t.personal_balance, "personal", ts)>> ELSE <<>>)
                          \o (IF t.company_balance > 0
                              THEN <<Slice(t.company_balance, "company", ts)>> ELSE <<>>)]
                  ELSE t
            d == FifoDeduct(t0, deducted_amount, 0, 0)
            type == fund_attribute_type(fund_attribute)
            t1 == [d.tracker EXCEPT
                     !.misuse = IF type = "personal" /\ d.company > 0
                                THEN format_number(@ + d.company) ELSE @,
                     !.advance = IF type = "company" /\ d.personal > 0
                                 THEN format_number(@ + d.personal) ELSE @]
        IN  Result(t1, Ratio(d.personal, amount), Ratio(d.company, amount),
                   BehaviorLabel(fund_attribute, d.personal, d.company)
                   \o ClauseIf(gap > 0, "shortfall", gap))

\* FIFO 处理资金流出_投资: the ratios are relative to what was deducted
FIFO_InvestmentDeduct(t, amount) ==
  LET total_available == t.personal_balance + t.company_balance
  IN  IF amount <= 0 THEN Result(t, 0, 0, <<>>)
      ELSE IF total_available <= 0
      THEN Result(t, 0, 0, <<Clause("pool_empty", amount)>>)
      ELSE
        LET d == FifoDeduct(t, Min(amount, total_available), 0, 0)
            total_deducted == d.personal + d.company
            t1 == [d.tracker EXCEPT
                     !.misuse = IF d.company > 0
                                THEN format_number(@ + d.company) ELSE @]
        IN  Result(t1,
                   IF total_deducted > 0 THEN Ratio(d.personal, total_deducted) ELSE 0,
                   IF total_deducted > 0 THEN Ratio(d.company, total_deducted) ELSE 0,
                   InvestLabel(d.personal, d.company))

\* FIFO 处理资金流出
FIFO_ProcessDebit(t, amount, fund_attribute, ts) ==
  IF amount <= 0 THEN Result(t, 0, 0, <<>>)
  ELSE IF is_investment_product(fund_attribute)
  THEN LET r == FIFO_InvestmentDeduct(t, amount)
       IN  [r EXCEPT !.tracker.pools[fund_attribute] =
              UpdateInvestmentProduct(@, amount, r.personal_ratio, r.company_ratio)]
  ELSE FIFO_OrdinaryDebit(t, amount, fund_attribute, ts)

\* FIFO 处理投资产品赎回
FIFO_ProcessRedemption(t, amount, fund_attribute, ts) ==
  IF amount <= 0 \/ ~is_investment_product(fund_attribute)
  THEN Result(t, 0, 0, <<>>)
  ELSE IF ~t.pools[fund_attribute].exists
  THEN Result([t EXCEPT !.personal_balance = @ + amount,
                        !.queue = Append(@, Slice(amount, "personal", ts))],
              RATIO_ONE, 0, <<Clause("no_purchase_record", amount)>>)
  ELSE
    LET pool == t.pools[fund_attribute]
        r == RedeemInvestmentProduct(pool, amount)
    IN  IF ~r.ok THEN Result(t, 0, 0, <<Clause("no_valid_pool", amount)>>)
        ELSE
          LET pr == pool.personal_ratio
              cr == pool.company_ratio
              t1 == [t EXCEPT
                 !.pools[fund_attribute] = r.pool,
                 !.personal_profit_share =
                    IF r.gain > 0 THEN format_number(@ + MulRatio(r.gain, pr)) ELSE @,
                 !.company_profit_share =
                    IF r.gain > 0 THEN format_number(@ + MulRatio(r.gain, cr)) ELSE @,
                 !.personal_balance =
                    IF r.personal_return > 0 THEN @ + r.personal_return ELSE @,
                 !.company_balance =
                    IF r.company_return > 0 THEN @ + r.company_return ELSE @,
                 !.queue = @
                    \o (IF r.personal_return > 0
                        THEN <<Slice(r.personal_return, "personal", ts)>> ELSE <<>>)
                    \o (IF r.company_return > 0
                        THEN <<Slice(r.company_return, "company", ts)>> ELSE <<>>)]
          IN  Result(t1, pr, cr, <<Clause("redemption", amount)>>)

\* ---------------------------------------------- the tracker interface
\* ITracker.处理资金流入 / 处理资金流出 / 处理投资产品赎回, by algorithm
ProcessCredit(t, amount, fund_attribute, ts) ==
  IF t.algorithm = "FIFO" THEN FIFO_ProcessCredit(t, amount, fund_attribute, ts)
  ELSE BM_ProcessCredit(t, amount, fund_attribute)
\* a debit that reports no shortfall at all
ProcessDebit_SilentShortfall(t, amount, fund_attribute, ts) ==
  LET r == IF t.algorithm = "FIFO"
           THEN FIFO_ProcessDebit(t, amount, fund_attribute, ts)
           ELSE BM_ProcessDebit(t, amount, fund_attribute)
  IN  [r EXCEPT !.label = SelectSeq(@, LAMBDA c : c[1] # "shortfall")]
\* a FIFO debit that leaves the queue in reverse order
ProcessDebit_QueueReversed(t, amount, fund_attribute, ts) ==
  IF t.algorithm = "FIFO"
  THEN LET r == FIFO_ProcessDebit(t, amount, fund_attribute, ts)
           q == r.tracker.queue
       IN  [r EXCEPT !.tracker.queue = [i \in 1..Len(q) |-> q[Len(q) + 1 - i]]]
  ELSE BM_ProcessDebit(t, amount, fund_attribute)

\* a debit that also books an other-class payment made with personal money
\* as an advance
ProcessDebit_OtherAccrues(t, amount, fund_attribute, ts) ==
  LET r == IF t.algorithm = "FIFO"
           THEN FIFO_ProcessDebit(t, amount, fund_attribute, ts)
           ELSE BM_ProcessDebit(t, amount, fund_attribute)
      paid == t.personal_balance - r.tracker.personal_balance
  IN  IF fund_attribute_type(fund_attribute) = "other" /\ paid > 0
      THEN [r EXCEPT !.tracker.advance = format_number(@ + paid)]
      ELSE r
ProcessDebit(t, amount, fund_attribute, ts) ==
  IF t.algorithm = "FIFO" THEN FIFO_ProcessDebit(t, amount, fund_attribute, ts)
  ELSE BM_ProcessDebit(t, amount, fund_attribute)
\* a redemption that books the return of an unknown pool as company money
ProcessRedemption_UnknownToCompany(t, amount, fund_attribute, ts) ==
  IF amount > 0 /\ is_investment_product(fund_attribute)
     /\ ~t.pools[fund_attribute].exists
  THEN Result([t EXCEPT !.company_balance = @ + amount,
                        !.queue = IF t.algorithm = "FIFO"
                                  THEN Append(@, Slice(amount, "company", ts))
                                  ELSE @],
              0, RATIO_ONE, <<Clause("no_purchase_record", amount)>>)
  ELSE IF t.algorithm = "FIFO"
  THEN FIFO_ProcessRedemption(t, amount, fund_attribute, ts)
  ELSE BM_ProcessRedemption(t, amount, fund_attribute)
\* a redemption that recomputes the pool's ratios against everything ever
\* purchased instead of against what is left in the pool
ProcessRedemption_RatiosOverPurchases(t, amount, fund_attribute, ts) ==
  LET r == IF t.algorithm = "FIFO"
           THEN FIFO_ProcessRedemption(t, amount, fund_attribute, ts)
           ELSE BM_ProcessRedemption(t, amount, fund_attribute)
      pool == r.tracker.pools[fund_attribute]
  IN  IF is_investment_product(fund_attribute) /\ pool.exists
         /\ pool.cumulative_purchase > 0
      THEN [r EXCEPT !.tracker.pools[fund_attribute].personal_ratio =
                        Ratio(pool.personal_amount, pool.cumulative_purchase),
                     !.tracker.pools[fund_attribute].company_ratio =
                        Ratio(pool.company_amount, pool.cumulative_purchase)]
      ELSE r
ProcessRedemption(t, amount, fund_attribute, ts) ==
  IF t.algorithm = "FIFO" THEN FIFO_ProcessRedemption(t, amount, fund_attribute, ts)
  ELSE BM_ProcessRedemption(t, amount, fund_attribute)

\* ------------------------------------------------------------- the state
VARIABLES
  tracker,      \* the tracker object: balances, queue, counters, pools
  ret,          \* what the last tracker call returned
  last_op,      \* the last tracker call: its kind and arguments
  ops,          \* number of direct tracker calls made so far
  \* the audit pipeline
  row,          \* the ledger row the pipeline reads next
  row_no,       \* number of ledger rows processed so far
  seeded,       \* the opening balance has been derived and seeded
  out,          \* what was emitted for the row processed last
  wf,           \* the ledger read so far is well formed (see WellFormedRow)
  \* the ledger-integrity validator
  heap,         \* the data frames alive, by reference
  df,           \* reference of the caller's frame
  result_df,    \* reference of the validator's working frame
  input,        \* the rows the caller passed in, as they were at the call
  idx,          \* loop index i of validate_flow_integrity
  validation_errors,
  optimization_count,
  optimization_failed,
  report,       \* the dictionary validate_flow_integrity returns
  calls,        \* number of calls of validate_flow_integrity so far
  pc,           \* where the validator is: idle, start, loop, report, done
  \* the two trackers side by side
  twin,         \* a Balance-Method tracker fed the calls the tracker is fed
  twin_ret,     \* what the last call of the twin returned
  \* the time-point query service
  data,         \* the frame the service holds (NoData: None)
  total_rows,   \* the number of rows the service believes it holds
  query_history,
  query_result, \* what the last call of query_time_point returned
  loads,        \* number of calls of load_data so far
  queries       \* number of calls of query_time_point so far

trk == <<tracker, ret, last_op, ops>>
pipe == <<row, row_no, seeded, out, wf>>
val == <<heap, df, result_df, input, idx, validation_errors, optimization_count,
         optimization_failed, report, calls, pc>>
twins == <<twin, twin_ret>>
svc == <<data, total_rows, query_history, query_result, loads, queries>>
vars == <<trk, pipe, val, twins, svc>>

Algorithms == {"FIFO", "BALANCE_METHOD"}
Owners == {"company", "personal"}
\* transaction amounts, in whole cents
Amounts == {3 * CENT, 4 * CENT}
\* derived opening balances, positive or not
OpeningBalances == {0, 4 * CENT}

NoReturn == [personal_ratio |-> 0, company_ratio |-> 0, label |-> <<>>]
Returned(r) ==
  [personal_ratio |-> r.personal_ratio, company_ratio |-> r.company_ratio,
   label |-> r.label]
Op(kind, amount, fund_attribute) ==
  [kind |-> kind, amount |-> amount, fund_attribute |-> fund_attribute]

\* TrackerFactory.create_tracker: a fresh tracker of either algorithm
NoRow ==
  [credit |-> 0, debit |-> 0, credit_given |-> FALSE, debit_given |-> FALSE,
   balance |-> 0, fund_attribute |-> ""]
NoOut ==
  [recorded_balance |-> 0, total_balance |-> 0, balance_ok |-> TRUE,
   column_written |-> FALSE, column_gap |-> 0, state_gap |-> 0,
   summary_written |-> FALSE, summary_gap |-> 0]
NoReport ==
  [total_rows |-> 0, errors_count |-> 0, optimizations_count |-> 0,
   optimization_failed |-> FALSE, is_valid |-> FALSE, result_dataframe |-> 0,
   has_modifications |-> FALSE]

PipelineIdle ==
  /\ row = NoRow /\ row_no = 0 /\ seeded = FALSE /\ out = NoOut /\ wf = TRUE
ValidatorIdle ==
  /\ heap = <<>> /\ df = 0 /\ result_df = 0 /\ input = <<>> /\ idx = 0
  /\ validation_errors = <<>> /\ optimization_count = 0
  /\ optimization_failed = FALSE /\ report = NoReport /\ calls = 0
  /\ pc = "idle"
\* no second tracker runs beside the tracker
TwinIdle == twin = NewTracker("BALANCE_METHOD") /\ twin_ret = NoReturn
\* TimePointQueryService.__init__: a frame that is None
NoData == <<>>
\* what query_time_point has returned before it was ever called
NoQueryResult == [success |-> FALSE, target_row |-> 0, tracker_state |-> <<>>]
\* TimePointQueryService.__init__: no data, no rows, an empty history
ServiceIdle ==
  /\ data = NoData /\ total_rows = 0 /\ query_history = <<>>
  /\ query_result = NoQueryResult /\ loads = 0 /\ queries = 0

Init ==
  /\ tracker \in {NewTracker(alg) : alg \in Algorithms}
  /\ ret = NoReturn
  /\ last_op = Op("none", 0, "")
  /\ ops = 0
  /\ PipelineIdle
  /\ ValidatorIdle
  /\ TwinIdle
  /\ ServiceIdle

\* 初始化余额, called before the first row is fed
Initialize ==
  /\ ops = 0
  /\ \E opening \in OpeningBalances, owner \in Owners :
       /\ tracker' = InitializeBalance(tracker, opening, owner)
       /\ last_op' = Op("initialize", opening, owner)
  /\ ret' = NoReturn
  /\ UNCHANGED ops
  /\ UNCHANGED <<pipe, val, twins, svc>>

\* 处理资金流入 on an ordinary credit row
Credit ==
  /\ ops < MaxOps
  /\ \E amount \in Amounts, fund_attribute \in Labels \ PoolKeys :
       LET r == ProcessCredit(tracker, amount, fund_attribute, ops + 1)
       IN  /\ tracker' = r.tracker
           /\ ret' = Returned(r)
           /\ last_op' = Op("credit", amount, fund_attribute)
  /\ ops' = ops + 1
  /\ UNCHANGED <<pipe, val, twins, svc>>

\* 处理资金流出 on a debit row of any attribute
Debit ==
  /\ ops < MaxOps
  /\ \E amount \in Amounts, fund_attribute \in Labels :
       LET r == ProcessDebit(tracker, amount, fund_attribute, ops + 1)
       IN  /\ tracker' = r.tracker
           /\ ret' = Returned(r)
           /\ last_op' = Op("debit", amount, fund_attribute)
  /\ ops' = ops + 1
  /\ UNCHANGED <<pipe, val, twins, svc>>

\* 处理投资产品赎回 on a credit row with an investment attribute
Redeem ==
  /\ ops < MaxOps
  /\ \E amount \in Amounts, fund_attribute \in PoolKeys :
       LET r == ProcessRedemption(tracker, amount, fund_attribute, ops + 1)
       IN  /\ tracker' = r.tracker
           /\ ret' = Returned(r)
           /\ last_op' = Op("redeem", amount, fund_attribute)
  /\ ops' = ops + 1
  /\ UNCHANGED <<pipe, val, twins, svc>>

Next == Initialize \/ Credit \/ Debit \/ Redeem

Spec == Init /\ [][Next]_vars

\* ------------------------------------------------------ the audit pipeline
\* FlowAnalyzer.分析交易方向: the effective amount and the direction of a row
classify_direction(credit, debit) ==
  IF credit > 0 /\ debit = 0
  THEN [amount |-> credit, direction |-> "credit"]
  ELSE IF credit = 0 /\ debit > 0
  THEN [amount |-> debit, direction |-> "debit"]
  ELSE IF credit > 0 /\ debit > 0
  THEN [amount |-> Max(credit, debit),
        direction |-> IF credit > debit THEN "credit" ELSE "debit"]
  ELSE [amount |-> 0, direction |-> "none"]

\* DataProcessor.计算初始余额: the balance before the first row.  The credit
\* cell is used whenever it is not blank, the debit cell only when the credit
\* cell is blank.
InitialBalance(first_row) ==
  LET first_amount == IF first_row.credit_given THEN first_row.credit
                      ELSE IF first_row.debit_given THEN - first_row.debit
                      ELSE 0
  IN  first_row.balance - first_amount

\* 处理单行交易 and the dispatch of _process_transactions /
\* TimePointQueryService._process_single_row (a blank cell reads as 0)
ProcessSingleRow(t, r, ts) ==
  LET c == classify_direction(r.credit, r.debit)
  IN  IF c.direction = "credit"
      THEN IF is_investment_product(r.fund_attribute)
           THEN ProcessRedemption(t, c.amount, r.fund_attribute, ts)
           ELSE ProcessCredit(t, c.amount, r.fund_attribute, ts)
      ELSE IF c.direction = "debit"
      THEN ProcessDebit(t, c.amount, r.fund_attribute, ts)
      ELSE Result(t, 0, 0, <<Clause("no_transaction", 0)>>)

\* which tracker call a row leads to
RowKind(r) ==
  LET c == classify_direction(r.credit, r.debit)
  IN  IF c.direction = "credit" /\ is_investment_product(r.fund_attribute)
      THEN "redeem" ELSE c.direction

\* main.py _update_result_columns: the funding-gap column of the row
ColumnFundingGap(t) == t.misuse - t.returned_personal_principal

\* TimePointQueryService._get_tracker_state: funding_gap
StateFundingGap(t) == t.misuse - t.returned_company_principal - t.advance

\* BalanceMethodTracker.获取状态摘要: funding_gap
SummaryFundingGap(t) ==
  format_number(t.misuse - t.returned_company_principal - t.advance)

\* _update_result_columns, _validate_balance and the two state reports, for
\* the row just processed
Emit(t, r) ==
  [recorded_balance |-> r.balance,
   total_balance |-> t.personal_balance + t.company_balance,
   balance_ok |-> Abs(t.personal_balance + t.company_balance - r.balance)
                    <= BALANCE_TOLERANCE,
   column_written |-> t.algorithm = "FIFO",
   column_gap |-> IF t.algorithm = "FIFO" THEN ColumnFundingGap(t) ELSE 0,
   state_gap |-> StateFundingGap(t),
   summary_written |-> t.algorithm = "BALANCE_METHOD",
   summary_gap |-> IF t.algorithm = "BALANCE_METHOD"
                   THEN SummaryFundingGap(t) ELSE 0]

\* ledger rows fed to the pipeline: amounts in whole cents, one, both or none
\* of the two amount cells positive
PipelineCredits == {0, 4 * CENT}
PipelineDebits == {0, 3 * CENT}
\* recorded balance of the first row
FirstBalances == {0, 4 * CENT, 7 * CENT}
\* by how much a recorded balance may be off and still pass validation
Drifts == {0, CENT \div 2}

\* first rows: an amount cell that holds no amount is blank or holds 0
FirstRows ==
  {r \in [credit : PipelineCredits, debit : PipelineDebits,
          credit_given : BOOLEAN, debit_given : BOOLEAN,
          balance : FirstBalances, fund_attribute : Labels] :
     (r.credit > 0 => r.credit_given) /\ (r.debit > 0 => r.debit_given)}

\* the rows that may follow a row with the given recorded balance and pass
\* _check_balance_continuity
NextRows(prev_balance) ==
  {[credit |-> c, debit |-> d, credit_given |-> TRUE, debit_given |-> TRUE,
    balance |-> prev_balance + c - d + e, fund_attribute |-> a] :
     c \in PipelineCredits, d \in PipelineDebits, e \in Drifts, a \in Labels}

\* a row of a well-formed ledger: at most one amount cell positive, recorded
\* balances that never go below zero and satisfy the balance equation exactly
WellFormedRow(r, prev_balance) ==
  /\ r.credit = 0 \/ r.debit = 0
  /\ r.balance = prev_balance + r.credit - r.debit
  /\ prev_balance >= 0 /\ r.balance >= 0

\* a fresh tracker and a validated ledger whose first row is at hand
PipelineInit ==
  /\ tracker \in {NewTracker(alg) : alg \in Algorithms}
  /\ ret = NoReturn
  /\ last_op = Op("none", 0, "")
  /\ ops = 0
  /\ row \in FirstRows
  /\ row_no = 0 /\ seeded = FALSE /\ out = NoOut /\ wf = TRUE
  /\ ValidatorIdle
  /\ TwinIdle
  /\ ServiceIdle

\* AuditService.analyze_financial_data step 4 / _reset_tracker: the opening
\* balance is derived from the first row and seeded as company funds
SeedOpeningBalance ==
  /\ ~seeded
  /\ LET opening == InitialBalance(row)
     IN  /\ tracker' = IF opening > 0
                       THEN InitializeBalance(tracker, opening, "company")
                       ELSE tracker
         /\ last_op' = Op("initialize", opening, "company")
  /\ ret' = NoReturn
  /\ seeded' = TRUE
  /\ UNCHANGED <<ops, row, row_no, out, wf, val, twins, svc>>

\* one iteration of _process_transactions: the row is classified, fed to the
\* tracker, and its result columns are written
ProcessRow ==
  /\ seeded
  /\ row_no < MaxRows
  /\ LET r == ProcessSingleRow(tracker, row, row_no + 1)
         prev_balance == IF row_no = 0 THEN row.balance - row.credit + row.debit
                         ELSE out.recorded_balance
     IN  /\ tracker' = r.tracker
         /\ ret' = Returned(r)
         /\ last_op' = Op(RowKind(row), classify_direction(row.credit, row.debit).amount,
                          row.fund_attribute)
         /\ out' = Emit(r.tracker, row)
         /\ wf' = (wf /\ WellFormedRow(row, prev_balance))
  /\ row_no' = row_no + 1
  /\ row' \in IF row_no + 1 < MaxRows THEN NextRows(row.balance) ELSE {row}
  /\ UNCHANGED <<ops, seeded, val, twins, svc>>

PipelineNext == SeedOpeningBalance \/ ProcessRow

SpecPipeline == PipelineInit /\ [][PipelineNext]_vars

\* ------------------------------------------- the ledger-integrity validator
\* FlowIntegrityValidator.tolerance
tolerance == CENT

\* a continuity check that leaves the debit out of the expected balance
check_balance_continuity_NoDebit(previous_row, current_row) ==
  LET expected_balance == previous_row.balance + current_row.credit
  IN  Abs(current_row.balance - expected_balance) <= tolerance

\* a continuity check that demands the exact balance, with no tolerance
check_balance_continuity_Exact(previous_row, current_row) ==
  current_row.balance = previous_row.balance + current_row.credit
                        - current_row.debit

\* _check_balance_continuity (with _safe_get_balance and _safe_get_amount)
check_balance_continuity(previous_row, current_row) ==
  LET expected_balance == previous_row.balance + current_row.credit
                          - current_row.debit
  IN  Abs(current_row.balance - expected_balance) <= tolerance

\* a plain assignment where the copy should be: the same frame, aliased
CopyFrame_Alias(h, ref) == [heap |-> h, ref |-> ref]

\* df.copy(): a new frame with the same rows
CopyFrame(h, ref) == [heap |-> Append(h, h[ref]), ref |-> Len(h) + 1]

\* sorted(indices)
SortedSeq(s) ==
  LET S == {s[k] : k \in DOMAIN s}
  IN  [k \in 1..Len(s) |-> CHOOSE x \in S : Cardinality({y \in S : y < x}) = k - 1]

RECURSIVE SameTimeFrom(_, _, _)
SameTimeFrom(rows, ts, pos) ==
  IF pos > Len(rows) THEN <<>>
  ELSE (IF rows[pos].ts = ts THEN <<pos>> ELSE <<>>)
       \o SameTimeFrom(rows, ts, pos + 1)

\* _attempt_reorder_fix: the positions of all rows that share the full
\* timestamp of the problem row, ascending
same_time_indices(rows, problem_row_idx) ==
  SameTimeFrom(rows, rows[problem_row_idx].ts, 1)

\* reordered rows written to the first positions of the frame instead of the
\* positions the cluster occupies
Reordered_FirstPositions(rows, original_indices, new_order) ==
  [p \in 1..Len(rows) |->
     IF p <= Len(new_order) THEN rows[new_order[p]] ELSE rows[p]]

\* the row contents _create_reordered_dataframe produces: the rows of
\* new_order written to the sorted original positions, the rest kept
Reordered(rows, original_indices, new_order) ==
  LET sorted_positions == SortedSeq(original_indices)
  IN  [p \in 1..Len(rows) |->
         IF \E k \in 1..Len(new_order) : sorted_positions[k] = p
         THEN rows[new_order[CHOOSE k \in 1..Len(new_order) : sorted_positions[k] = p]]
         ELSE rows[p]]

\* _create_reordered_dataframe: a copy of the frame with the rows reordered
create_reordered_dataframe(h, ref, original_indices, new_order) ==
  LET c == CopyFrame(h, ref)
  IN  [heap |-> [c.heap EXCEPT ![c.ref] = Reordered(h[ref], original_indices, new_order)],
       ref |-> c.ref]

\* _test_order_validity: the reordered rows are continuous from the first to
\* the last position of the order, and into the row after it (the temporary
\* frame it builds is dropped)
test_order_validity(rows, order) ==
  LET temp_df == Reordered(rows, SortedSeq(order), order)
      positions == {order[k] : k \in 1..Len(order)}
      min_idx == CHOOSE x \in positions : \A y \in positions : x <= y
      max_idx == CHOOSE x \in positions : \A y \in positions : x >= y
  IN  /\ \A p \in min_idx..max_idx :
           p = 1 \/ check_balance_continuity(temp_df[p - 1], temp_df[p])
      /\ max_idx + 1 <= Len(temp_df) =>
           check_balance_continuity(temp_df[max_idx], temp_df[max_idx + 1])

RECURSIVE GreedyPlace_Exact(_, _, _, _)
\* a placement loop that takes a candidate only if its flow leads to its
\* recorded balance exactly, with no tolerance
GreedyPlace_Exact(rows, remaining_indices, current_balance, result_order) ==
  IF remaining_indices = <<>> THEN [found |-> TRUE, order |-> result_order]
  ELSE
    LET fits(k) ==
          LET candidate_row == rows[remaining_indices[k]]
          IN  candidate_row.balance
                = current_balance + candidate_row.credit - candidate_row.debit
        hits == {k \in 1..Len(remaining_indices) : fits(k)}
    IN  IF hits = {} THEN [found |-> FALSE, order |-> <<>>]
        ELSE LET k == CHOOSE x \in hits : \A y \in hits : x <= y
                 rest == [j \in 1..(Len(remaining_indices) - 1) |->
                            IF j < k THEN remaining_indices[j]
                            ELSE remaining_indices[j + 1]]
             IN  GreedyPlace_Exact(rows, rest, rows[remaining_indices[k]].balance,
                                   Append(result_order, remaining_indices[k]))

RECURSIVE GreedyPlace(_, _, _, _)
\* the placement loop of _greedy_order_search: the first remaining candidate
\* whose flow leads from the current balance to its recorded balance is placed
GreedyPlace(rows, remaining_indices, current_balance, result_order) ==
  IF remaining_indices = <<>> THEN [found |-> TRUE, order |-> result_order]
  ELSE
    LET fits(k) ==
          LET candidate_row == rows[remaining_indices[k]]
          IN  Abs(candidate_row.balance
                  - (current_balance + candidate_row.credit - candidate_row.debit))
                <= tolerance
        hits == {k \in 1..Len(remaining_indices) : fits(k)}
    IN  IF hits = {} THEN [found |-> FALSE, order |-> <<>>]
        ELSE LET k == CHOOSE x \in hits : \A y \in hits : x <= y
                 rest == [j \in 1..(Len(remaining_indices) - 1) |->
                            IF j < k THEN remaining_indices[j]
                            ELSE remaining_indices[j + 1]]
             IN  GreedyPlace(rows, rest, rows[remaining_indices[k]].balance,
                             Append(result_order, remaining_indices[k]))

\* a search that starts from the balance of the first row of the cluster
\* instead of the row before it
greedy_order_search_OffByOne(rows, indices) ==
  IF Len(indices) <= 1 THEN [found |-> Len(indices) = 1, order |-> indices]
  ELSE LET min_pos == SortedSeq(indices)[1]
       IN  IF min_pos = 1
           THEN IF test_order_validity(rows, indices)
                THEN [found |-> TRUE, order |-> indices]
                ELSE [found |-> FALSE, order |-> <<>>]
           ELSE GreedyPlace(rows, indices, rows[min_pos].balance, <<>>)

\* _greedy_order_search (position 1 is the first row of the frame)
greedy_order_search(rows, indices) ==
  IF Len(indices) <= 1 THEN [found |-> Len(indices) = 1, order |-> indices]
  ELSE LET min_pos == SortedSeq(indices)[1]
       IN  IF min_pos = 1
           THEN IF test_order_validity(rows, indices)
                THEN [found |-> TRUE, order |-> indices]
                ELSE [found |-> FALSE, order |-> <<>>]
           ELSE GreedyPlace(rows, indices, rows[min_pos - 1].balance, <<>>)

\* _attempt_reorder_fix (with _find_best_order): a new frame with the cluster
\* of the problem row reordered, or no fix
attempt_reorder_fix(h, ref, problem_row_idx) ==
  LET rows == h[ref]
      indices == same_time_indices(rows, problem_row_idx)
      best_order == greedy_order_search(rows, indices)
  IN  IF Len(indices) <= 1 THEN [ok |-> FALSE, heap |-> h, ref |-> ref]
      ELSE IF best_order.found /\ best_order.order # indices
      THEN LET f == create_reordered_dataframe(h, ref, indices, best_order.order)
           IN  [ok |-> TRUE, heap |-> f.heap, ref |-> f.ref]
      ELSE [ok |-> FALSE, heap |-> h, ref |-> ref]

\* _record_error
record_error(errors, row_idx, message) ==
  Append(errors, [row |-> row_idx, message |-> message])

\* _generate_validation_report
generate_validation_report(h, result_ref, original_ref, errors, count, failed) ==
  [total_rows |-> Len(h[original_ref]),
   errors_count |-> Len(errors),
   optimizations_count |-> count,
   optimization_failed |-> failed,
   is_valid |-> Len(errors) = 0,
   result_dataframe |-> IF count > 0 THEN result_ref ELSE original_ref,
   has_modifications |-> count > 0]

\* ledgers handed to the validator: each row a credit of 2 cents or a debit of
\* 1 cent, recorded balances between 4 and 6.5 cents
VFlows == {[credit |-> 2 * CENT, debit |-> 0], [credit |-> 0, debit |-> CENT]}
VBalances == {4 * CENT, 5 * CENT, 6 * CENT, 6 * CENT + CENT \div 2}

\* a frame as 预处理财务数据 leaves it: sorted by full timestamp, so the rows
\* form at most three blocks of equal timestamps split after k1 and k2
Ledger(n, k1, k2, f, b) ==
  [p \in 1..n |->
     [id |-> p,
      ts |-> 1 + (IF p > k1 THEN 1 ELSE 0) + (IF p > k2 THEN 1 ELSE 0),
      credit |-> f[p].credit, debit |-> f[p].debit, balance |-> b[p]]]

\* where the blocks may be split: two splits, or none (one block)
Splits(n) ==
  {x \in (1..n) \X (1..n) : x[1] < x[2] \/ (x[1] = n /\ x[2] = n)}

\* the caller holds a preprocessed frame and calls validate_flow_integrity
ValidatorInit ==
  /\ tracker = NewTracker("FIFO")
  /\ ret = NoReturn
  /\ last_op = Op("none", 0, "")
  /\ ops = 0
  /\ PipelineIdle
  /\ TwinIdle
  /\ ServiceIdle
  /\ \E n \in 2..MaxRowsV :
       \E k \in Splits(n), f \in [1..n -> VFlows], b \in [1..n -> VBalances] :
          /\ f[1].debit = 0
          /\ heap = <<Ledger(n, k[1], k[2], f, b)>>
          /\ input = Ledger(n, k[1], k[2], f, b)
  /\ df = 1 /\ result_df = 0 /\ idx = 0
  /\ validation_errors = <<>> /\ optimization_count = 0
  /\ optimization_failed = FALSE /\ report = NoReport
  /\ calls = 1
  /\ pc = "start"

\* a start of validate_flow_integrity that keeps the errors and the repair
\* count of the call before
StartValidation_NoReset ==
  /\ pc = "start"
  /\ LET c == CopyFrame(heap, df)
     IN  heap' = c.heap /\ result_df' = c.ref
  /\ optimization_failed' = FALSE
  /\ idx' = 2
  /\ pc' = IF Len(heap[df]) >= 2 THEN "loop" ELSE "report"
  /\ UNCHANGED <<validation_errors, optimization_count>>
  /\ UNCHANGED <<df, input, report, calls, trk, pipe, twins, svc>>

\* validate_flow_integrity, up to the loop: the state of the last call is
\* cleared and the working copy made
StartValidation ==
  /\ pc = "start"
  /\ LET c == CopyFrame(heap, df)
     IN  heap' = c.heap /\ result_df' = c.ref
  /\ validation_errors' = <<>>
  /\ optimization_count' = 0
  /\ optimization_failed' = FALSE
  /\ idx' = 2
  /\ pc' = IF Len(heap[df]) >= 2 THEN "loop" ELSE "report"
  /\ UNCHANGED <<df, input, report, calls, trk, pipe, twins, svc>>

\* one iteration of the loop of validate_flow_integrity, at row idx
CheckRow ==
  /\ pc = "loop"
  /\ LET rows == heap[result_df]
         fix == attempt_reorder_fix(heap, result_df, idx)
         fixed == fix.heap[fix.ref]
         continuous == check_balance_continuity(rows[idx - 1], rows[idx])
         repaired == ~continuous /\ fix.ok
         still_broken == repaired
                         /\ ~check_balance_continuity(fixed[idx - 1], fixed[idx])
         stop == ~continuous /\ (~fix.ok \/ still_broken)
     IN  /\ heap' = IF repaired THEN fix.heap ELSE heap
         /\ result_df' = IF repaired THEN fix.ref ELSE result_df
         /\ optimization_count' = IF repaired THEN optimization_count + 1
                                  ELSE optimization_count
         /\ validation_errors' =
              IF still_broken
              THEN record_error(validation_errors, idx, "still_broken_after_reorder")
              ELSE IF stop
              THEN record_error(validation_errors, idx, "no_reorder_fix")
              ELSE validation_errors
         /\ optimization_failed' = stop
         /\ idx' = IF stop THEN idx ELSE idx + 1
         /\ pc' = IF stop \/ idx + 1 > Len(rows) THEN "report" ELSE "loop"
  /\ UNCHANGED <<df, input, report, calls, trk, pipe, twins, svc>>

\* validate_flow_integrity returns the report
GenerateReport ==
  /\ pc = "report"
  /\ report' = generate_validation_report(heap, result_df, df, validation_errors,
                                          optimization_count, optimization_failed)
  /\ pc' = "done"
  /\ UNCHANGED <<heap, df, result_df, input, idx, validation_errors,
                 optimization_count, optimization_failed, calls, trk, pipe, twins, svc>>

\* the caller hands a repaired sequence to validate_flow_integrity again
Revalidate ==
  /\ pc = "done"
  /\ report.has_modifications
  /\ calls < MaxCalls
  /\ df' = report.result_dataframe
  /\ input' = heap[report.result_dataframe]
  /\ calls' = calls + 1
  /\ pc' = "start"
  /\ UNCHANGED <<heap, result_df, idx, validation_errors, optimization_count,
                 optimization_failed, report, trk, pipe, twins, svc>>

\* a pipeline that goes on whatever the report says
flow_unusable_Never(validation_result) == FALSE

\* AuditService.analyze_financial_data step 2: the analysis is given up when
\* the validation failed and the repair failed
flow_unusable(validation_result) ==
  ~validation_result.is_valid /\ validation_result.optimization_failed

\* the frame AuditService.analyze_financial_data goes on with after step 2
frame_after_validation(validation_result, original_ref) ==
  IF ~validation_result.is_valid /\ validation_result.optimizations_count > 0
  THEN validation_result.result_dataframe
  ELSE original_ref

\* a row of the validated frame as the pipeline reads it
AsPipelineRow(r) ==
  [credit |-> r.credit, debit |-> r.debit, credit_given |-> TRUE,
   debit_given |-> TRUE, balance |-> r.balance, fund_attribute |-> "other"]

\* AuditService.analyze_financial_data, steps 2 to 4: it returns None on an
\* irreparable ledger, and otherwise seeds the tracker with the opening
\* balance of the frame it goes on with
AnalyzeFinancialData ==
  /\ pc = "done"
  /\ IF flow_unusable(report)
     THEN /\ pc' = "aborted"
          /\ UNCHANGED <<trk, pipe>>
     ELSE LET first_row ==
                AsPipelineRow(heap[frame_after_validation(report, df)][1])
              opening == InitialBalance(first_row)
          IN  /\ tracker' = IF opening > 0
                            THEN InitializeBalance(tracker, opening, "company")
                            ELSE tracker
              /\ last_op' = Op("initialize", opening, "company")
              /\ ret' = NoReturn
              /\ row' = first_row
              /\ seeded' = TRUE
              /\ pc' = "tracking"
              /\ UNCHANGED <<ops, row_no, out, wf>>
  /\ UNCHANGED <<heap, df, result_df, input, idx, validation_errors,
                 optimization_count, optimization_failed, report, calls,
                 twins, svc>>

ValidatorNext ==
  \/ StartValidation \/ CheckRow \/ GenerateReport \/ Revalidate
  \/ AnalyzeFinancialData

SpecValidator == ValidatorInit /\ [][ValidatorNext]_vars

\* ------------------------------------------------ direction of a row
\* the amounts of the two cells of a row, in whole cents
MaxCellCents == 10
CellAmounts == {k * CENT : k \in 0..MaxCellCents}

\* a row with any two amounts in its cells
DirectionInit ==
  /\ tracker = NewTracker("FIFO")
  /\ ret = NoReturn
  /\ last_op = Op("none", 0, "")
  /\ ops = 0
  /\ \E credit \in CellAmounts, debit \in CellAmounts :
       row = [NoRow EXCEPT !.credit = credit, !.debit = debit,
                           !.credit_given = TRUE, !.debit_given = TRUE]
  /\ row_no = 0 /\ seeded = FALSE /\ out = NoOut /\ wf = TRUE
  /\ ValidatorIdle
  /\ TwinIdle
  /\ ServiceIdle

\* FlowAnalyzer.分析交易方向 applied to the row
AnalyzeDirection ==
  /\ row_no = 0
  /\ LET c == classify_direction(row.credit, row.debit)
     IN  last_op' = Op(c.direction, c.amount, row.fund_attribute)
  /\ row_no' = 1
  /\ UNCHANGED <<tracker, ret, ops, row, seeded, out, wf, val, twins, svc>>

SpecDirection == DirectionInit /\ [][AnalyzeDirection]_vars

\* ------------------------------------------------------------ the claims
RECURSIVE SumOwner(_, _)
\* sum of the amounts of the slices of one owner
SumOwner(queue, owner) ==
  IF queue = <<>> THEN 0
  ELSE (IF Head(queue).owner = owner THEN Head(queue).amount ELSE 0)
       + SumOwner(Tail(queue), owner)

HasClause(label, kind) == \E i \in 1..Len(label) : label[i][1] = kind

\* C2: after any sequence of initialize, credit, debit, investment-contribution
\* and redemption operations both balances are non-negative, in both trackers.
C2_BalancesNonNegative ==
  tracker.personal_balance >= 0 /\ tracker.company_balance >= 0

\* C2 witness: a debit larger than the liquid funds has drained both balances
C2_Witness ==
  /\ last_op.kind = "debit"
  /\ HasClause(ret.label, "shortfall")
  /\ tracker.personal_balance = 0 /\ tracker.company_balance = 0

\* C3: in the FIFO tracker the personal slices of the deposit queue sum to the
\* personal balance and the company slices to the company balance, within 0.01.
C3_QueueMatchesBalances ==
  tracker.algorithm = "FIFO" =>
    /\ Abs(SumOwner(tracker.queue, "personal") - tracker.personal_balance)
         <= BALANCE_TOLERANCE
    /\ Abs(SumOwner(tracker.queue, "company") - tracker.company_balance)
         <= BALANCE_TOLERANCE

\* C3 witness: a FIFO debit consumed a slice in part and left slices of both
\* owners in the queue
C3_Witness ==
  /\ tracker.algorithm = "FIFO"
  /\ last_op.kind = "debit"
  /\ SumOwner(tracker.queue, "personal") > 0
  /\ SumOwner(tracker.queue, "company") > 0
  /\ \E i \in 1..Len(tracker.queue) : tracker.queue[i].amount % (3 * CENT) # 0
                                      /\ tracker.queue[i].amount % (4 * CENT) # 0

Counters(t) ==
  <<t.misuse, t.advance, t.returned_company_principal,
    t.returned_personal_principal, t.personal_profit_share,
    t.company_profit_share>>

\* C5: no cumulative counter ever decreases: misuse, advance, the two returned
\* principals, the two profit shares and each pool's cumulative purchase and
\* redemption, which are also never negative.
C5_CountersMonotone ==
  [][ /\ \A i \in 1..6 : Counters(tracker')[i] >= Counters(tracker)[i]
      /\ \A k \in PoolKeys :
           /\ tracker'.pools[k].cumulative_purchase >= tracker.pools[k].cumulative_purchase
           /\ tracker'.pools[k].cumulative_redemption >= tracker.pools[k].cumulative_redemption
           /\ tracker'.pools[k].cumulative_purchase >= 0
           /\ tracker'.pools[k].cumulative_redemption >= 0 ]_vars

\* C5 witness: a run in which misuse, a returned principal, a profit share and
\* both cumulative pool counters have grown
C5_Witness ==
  /\ tracker.misuse > 0
  /\ tracker.company_profit_share > 0
  /\ \E k \in PoolKeys : /\ tracker.pools[k].cumulative_purchase > 0
                         /\ tracker.pools[k].cumulative_redemption > 0

\* C6: for every pool, whenever total_amount > 0, personal_amount +
\* company_amount equals total_amount within 0.01 and the two ratios sum to 1,
\* also after contributions made with insufficient or no liquid funds.
C6_PoolSplitConsistent ==
  \A k \in PoolKeys :
    tracker.pools[k].total_amount > 0 =>
      /\ Abs(tracker.pools[k].personal_amount + tracker.pools[k].company_amount
             - tracker.pools[k].total_amount) <= BALANCE_TOLERANCE
      /\ Abs(tracker.pools[k].personal_ratio + tracker.pools[k].company_ratio
             - RATIO_ONE) <= 2

\* C1: in a pipeline run over rows that passed validation, with the derived
\* opening balance seeded as company funds, personal_balance + company_balance
\* equals the row's recorded balance within 0.01 after every row, for both
\* trackers.  Stated for the ledgers on which the claim asks least: ledgers
\* that are well formed (one amount per row, exact balance equation, recorded
\* balances never below zero); the claim as written covers them.
C1_BalanceMatchesLedger ==
  (row_no > 0 /\ wf) => out.balance_ok

\* C4: the funding gap emitted for a row equals misuse - returned company
\* principal - advance of the tracker after that row, on every path that
\* emits it: the per-row column, the tracker state summary and the time-point
\* query state.
C4_FundingGapFormula ==
  row_no > 0 =>
    LET gap == tracker.misuse - tracker.returned_company_principal - tracker.advance
    IN  /\ out.column_written => out.column_gap = gap
        /\ out.summary_written => out.summary_gap = gap
        /\ out.state_gap = gap

\* the balance equation between every two consecutive rows, within 0.01
Consistent(rows) ==
  \A p \in 2..Len(rows) :
    Abs(rows[p].balance - (rows[p - 1].balance + rows[p].credit - rows[p].debit))
      <= BALANCE_TOLERANCE

\* the row sequence validate_flow_integrity returned
Returned_rows == heap[report.result_dataframe]

\* C7: whenever validate_flow_integrity reports is_valid, every two
\* consecutive rows of the returned sequence satisfy balance[i] = balance[i-1]
\* + credit[i] - debit[i] within 0.01, inside and after reordered clusters.
C7_ValidImpliesContinuous ==
  (pc = "done" /\ report.is_valid) => Consistent(Returned_rows)

\* C7 witness: a successful validation that reordered a cluster which is
\* followed by a row of a later timestamp
C7_Witness ==
  /\ pc = "done" /\ report.is_valid /\ report.optimizations_count > 0
  /\ \E p \in 2..(Len(Returned_rows) - 1) :
       /\ Returned_rows[p].id # p
       /\ Returned_rows[Len(Returned_rows)].ts > Returned_rows[p].ts

\* C8: the returned sequence is a permutation of the input rows in which
\* every position holds a row with the timestamp the input has at that
\* position; no row is dropped or duplicated.
C8_PermutationWithinTimestamps ==
  pc = "done" =>
    /\ Len(Returned_rows) = Len(input)
    /\ \A p \in 1..Len(input) : Returned_rows[p].ts = input[p].ts
    /\ \A q \in 1..Len(input) :
         Cardinality({p \in 1..Len(Returned_rows) : Returned_rows[p] = input[q]}) = 1

\* C8 witness: a validation that returned the rows in another order
C8_Witness ==
  /\ pc = "done"
  /\ \E p \in 1..Len(input) : Returned_rows[p] # input[p]

C10_InputNotMutated ==
  pc # "idle" => heap[df] = input

\* C10 witness: a call that reordered rows has returned, and the reordering
\* shows in the returned frame, which is not the caller's
C10_Witness ==
  /\ pc = "done" /\ report.has_modifications
  /\ report.result_dataframe # df
  /\ Returned_rows # heap[df]

\* a row's flow leads from the given balance to its recorded balance
Fits(r, balance) ==
  Abs(r.balance - (balance + r.credit - r.debit)) <= BALANCE_TOLERANCE

\* the timestamps of the input, and the cluster of each
Timestamps == {input[p].ts : p \in 1..Len(input)}
Cluster(t) == {p \in 1..Len(input) : input[p].ts = t}
FirstOf(S) == CHOOSE x \in S : \A y \in S : x <= y

\* the orderings of a cluster, and those under which the recorded balances
\* chain from the balance of the row before the cluster
Orderings(S) ==
  {o \in [1..Cardinality(S) -> S] : \A a, b \in 1..Cardinality(S) : o[a] = o[b] => a = b}
Chains(o, S) ==
  \A j \in 1..Len(o) :
    Fits(input[o[j]],
         IF j = 1 THEN input[FirstOf(S) - 1].balance ELSE input[o[j - 1]].balance)
ChainingOrderings(S) == {o \in Orderings(S) : Chains(o, S)}

\* no row of the cluster misses a balance it could follow by exactly the
\* tolerance (a comparison the floating-point code does not settle)
ClearCut(S) ==
  \A p \in S : \A q \in (S \cup {FirstOf(S) - 1}) \ {p} :
    Abs(input[p].balance - (input[q].balance + input[p].credit - input[p].debit))
      # BALANCE_TOLERANCE

\* the cluster does not hold the first row, the rows before it are continuous,
\* and exactly one ordering chains, which is not the input order
UniquelyRepairable(S) ==
  /\ Cardinality(S) >= 2 /\ 1 \notin S
  /\ ClearCut(S)
  /\ \A p \in 2..(FirstOf(S) - 1) : Fits(input[p], input[p - 1].balance)
  /\ Cardinality(ChainingOrderings(S)) = 1
  /\ \A o \in ChainingOrderings(S) : o # SortedSeq(o)

\* at no step of the ordering does a row placed later fit as well
Unambiguous(o, S) ==
  \A j \in 1..Len(o) : \A m \in (j + 1)..Len(o) :
    ~Fits(input[o[m]],
          IF j = 1 THEN input[FirstOf(S) - 1].balance ELSE input[o[j - 1]].balance)

\* the clusters the validator returned in another order than the input's
ChangedClusters ==
  {t \in Timestamps : \E p \in Cluster(t) : Returned_rows[p] # input[p]}

\* the cluster is returned in the given ordering, as one counted repair
EmittedAs(o, S) ==
  /\ \A k \in 1..Len(o) : Returned_rows[SortedSeq(o)[k]] = input[o[k]]
  /\ report.optimizations_count = Cardinality(ChangedClusters)
  /\ report.optimizations_count >= 1

Lonely(p) == Cluster(input[p].ts) = {p}

\* row p is the first row of the input that does not follow from the row
\* before it
FirstBreak(p) ==
  /\ ~Fits(input[p], input[p - 1].balance)
  /\ \A q \in 2..(p - 1) : Fits(input[q], input[q - 1].balance)

\* C12: a row inconsistent with the row before it and alone on its timestamp
\* makes the validator report an irreparable failure naming that row and
\* stop there; the audit pipeline then returns without initialising or
\* feeding the tracker, and no per-row output exists.
C12_IrreparableAborts ==
  \A p \in 2..Len(input) :
    (pc \in {"done", "aborted", "tracking"} /\ FirstBreak(p) /\ Lonely(p)) =>
      /\ report.optimization_failed /\ ~report.is_valid
      /\ validation_errors = <<[row |-> p, message |-> "no_reorder_fix"]>>
      /\ report.errors_count = 1
      /\ idx = p
      /\ pc # "tracking"
      /\ tracker = NewTracker("FIFO") /\ ~seeded /\ row_no = 0 /\ out = NoOut

\* C12 witness: the pipeline gave up on a ledger whose second row of three,
\* alone on its timestamp, was the break
C12_Witness ==
  /\ pc = "aborted"
  /\ Len(input) >= 3 /\ FirstBreak(2) /\ Lonely(2)
  /\ validation_errors # <<>> /\ validation_errors[1].row = 2

\* C13: a Balance-Method debit of amount a with a personal attribute, at
\* balances (p, c), deducts pd = min(a, p) from the personal balance and
\* cd = min(a - pd, c) from the company balance, adds exactly cd to misuse,
\* leaves advance alone and returns the ratios pd/a and cd/a.
C13_PersonalDebit ==
  [][ ( /\ tracker.algorithm = "BALANCE_METHOD"
        /\ ops' = ops + 1 /\ last_op'.kind = "debit"
        /\ is_personal_fund(last_op'.fund_attribute)
        /\ ~is_investment_product(last_op'.fund_attribute) ) =>
      LET a == last_op'.amount
          pd == Min(a, tracker.personal_balance)
          cd == Min(a - pd, tracker.company_balance)
      IN  /\ tracker'.personal_balance = tracker.personal_balance - pd
          /\ tracker'.company_balance = tracker.company_balance - cd
          /\ tracker'.misuse = tracker.misuse + cd
          /\ tracker'.advance = tracker.advance
          /\ ret'.personal_ratio = Ratio(pd, a)
          /\ ret'.company_ratio = Ratio(cd, a) ]_vars

\* C13 amended: the same, with misuse becoming the old misuse plus cd rounded
\* to two decimals (cd itself is not a whole number of cents when the
\* balances are not).
C13_PersonalDebitRounded ==
  [][ ( /\ tracker.algorithm = "BALANCE_METHOD"
        /\ ops' = ops + 1 /\ last_op'.kind = "debit"
        /\ is_personal_fund(last_op'.fund_attribute)
        /\ ~is_investment_product(last_op'.fund_attribute) ) =>
      LET a == last_op'.amount
          pd == Min(a, tracker.personal_balance)
          cd == Min(a - pd, tracker.company_balance)
      IN  /\ tracker'.personal_balance = tracker.personal_balance - pd
          /\ tracker'.company_balance = tracker.company_balance - cd
          /\ tracker'.misuse = format_number(tracker.misuse + cd)
          /\ tracker'.advance = tracker.advance
          /\ ret'.personal_ratio = Ratio(pd, a)
          /\ ret'.company_ratio = Ratio(cd, a) ]_vars

\* C13 witness: a personal debit paid partly from each balance
C13_Witness ==
  /\ tracker.algorithm = "BALANCE_METHOD"
  /\ last_op.kind = "debit" /\ is_personal_fund(last_op.fund_attribute)
  /\ ret.personal_ratio > 0 /\ ret.company_ratio > 0
  /\ tracker.misuse > 0

\* C14: a Balance-Method debit of amount a with a company attribute, at
\* balances (p, c), deducts cd = min(a, c) from the company balance and
\* pd = min(a - cd, p) from the personal balance, adds exactly pd to advance
\* and leaves misuse alone; when c >= a the personal balance, misuse and
\* advance do not change and the ratios are (0, 1).
C14_CompanyDebit ==
  [][ ( /\ tracker.algorithm = "BALANCE_METHOD"
        /\ ops' = ops + 1 /\ last_op'.kind = "debit"
        /\ is_company_fund(last_op'.fund_attribute)
        /\ ~is_personal_fund(last_op'.fund_attribute)
        /\ ~is_investment_product(last_op'.fund_attribute) ) =>
      LET a == last_op'.amount
          cd == Min(a, tracker.company_balance)
          pd == Min(a - cd, tracker.personal_balance)
      IN  /\ tracker'.company_balance = tracker.company_balance - cd
          /\ tracker'.personal_balance = tracker.personal_balance - pd
          /\ tracker'.advance = tracker.advance + pd
          /\ tracker'.misuse = tracker.misuse
          /\ tracker.company_balance >= a =>
               /\ tracker'.personal_balance = tracker.personal_balance
               /\ tracker'.advance = tracker.advance
               /\ ret'.personal_ratio = 0
               /\ ret'.company_ratio = RATIO_ONE ]_vars

\* C14 amended: the same, with advance becoming the old advance plus pd
\* rounded to two decimals.
C14_CompanyDebitRounded ==
  [][ ( /\ tracker.algorithm = "BALANCE_METHOD"
        /\ ops' = ops + 1 /\ last_op'.kind = "debit"
        /\ is_company_fund(last_op'.fund_attribute)
        /\ ~is_personal_fund(last_op'.fund_attribute)
        /\ ~is_investment_product(last_op'.fund_attribute) ) =>
      LET a == last_op'.amount
          cd == Min(a, tracker.company_balance)
          pd == Min(a - cd, tracker.personal_balance)
      IN  /\ tracker'.company_balance = tracker.company_balance - cd
          /\ tracker'.personal_balance = tracker.personal_balance - pd
          /\ tracker'.advance = format_number(tracker.advance + pd)
          /\ tracker'.misuse = tracker.misuse
          /\ tracker.company_balance >= a =>
               /\ tracker'.personal_balance = tracker.personal_balance
               /\ tracker'.advance = tracker.advance
               /\ ret'.personal_ratio = 0
               /\ ret'.company_ratio = RATIO_ONE ]_vars

\* C14 witness: a company debit that went into the personal balance
C14_Witness ==
  /\ tracker.algorithm = "BALANCE_METHOD"
  /\ last_op.kind = "debit" /\ is_company_fund(last_op.fund_attribute)
  /\ ret.personal_ratio > 0 /\ ret.company_ratio > 0
  /\ tracker.advance > 0

\* the pool amounts of a key, zero before its first contribution
PoolPart(t, key, part) ==
  IF t.pools[key].exists
  THEN (IF part = "personal" THEN t.pools[key].personal_amount
        ELSE t.pools[key].company_amount)
  ELSE 0

\* C15: a Balance-Method debit of amount a with an investment attribute
\* takes the personal balance first and the company balance for the rest,
\* adds exactly the company part to misuse, and the pool keyed by the
\* attribute receives a contribution whose personal and company parts are
\* the two parts taken.
C15_InvestmentDebit ==
  [][ ( /\ tracker.algorithm = "BALANCE_METHOD"
        /\ ops' = ops + 1 /\ last_op'.kind = "debit"
        /\ is_investment_product(last_op'.fund_attribute) ) =>
      LET a == last_op'.amount
          key == last_op'.fund_attribute
          pd == Min(a, tracker.personal_balance)
          cd == Min(a - pd, tracker.company_balance)
      IN  /\ tracker'.personal_balance = tracker.personal_balance - pd
          /\ tracker'.company_balance = tracker.company_balance - cd
          /\ tracker'.misuse = tracker.misuse + cd
          /\ tracker'.pools[key].exists
          /\ PoolPart(tracker', key, "personal")
               = PoolPart(tracker, key, "personal") + pd
          /\ PoolPart(tracker', key, "company")
               = PoolPart(tracker, key, "company") + cd ]_vars

\* C15 amended: the same, with misuse becoming the old misuse plus the
\* company part rounded to two decimals.
C15_InvestmentDebitRounded ==
  [][ ( /\ tracker.algorithm = "BALANCE_METHOD"
        /\ ops' = ops + 1 /\ last_op'.kind = "debit"
        /\ is_investment_product(last_op'.fund_attribute) ) =>
      LET a == last_op'.amount
          key == last_op'.fund_attribute
          pd == Min(a, tracker.personal_balance)
          cd == Min(a - pd, tracker.company_balance)
      IN  /\ tracker'.personal_balance = tracker.personal_balance - pd
          /\ tracker'.company_balance = tracker.company_balance - cd
          /\ tracker'.misuse = format_number(tracker.misuse + cd)
          /\ tracker'.pools[key].exists
          /\ PoolPart(tracker', key, "personal")
               = PoolPart(tracker, key, "personal") + pd
          /\ PoolPart(tracker', key, "company")
               = PoolPart(tracker, key, "company") + cd ]_vars

\* C15 witness: an investment debit paid partly from each balance
C15_Witness ==
  /\ tracker.algorithm = "BALANCE_METHOD"
  /\ last_op.kind = "debit" /\ is_investment_product(last_op.fund_attribute)
  /\ ret.personal_ratio > 0 /\ ret.company_ratio > 0
  /\ tracker.pools[last_op.fund_attribute].personal_amount > 0
  /\ tracker.pools[last_op.fund_attribute].company_amount > 0

\* C16: a row whose credit and debit are both positive and equal is
\* classified as a credit, with the common value as its amount.
C16_TiesGoToCredit ==
  (row_no = 1 /\ row.credit > 0 /\ row.credit = row.debit) =>
    /\ last_op.kind = "credit"
    /\ last_op.amount = row.credit

\* 收益 of 处理投资产品赎回: the gain a redemption of the amount realizes, as
\* the tracker at hand computes it
realized_gain(t, amount, fund_attribute) ==
  IF t.algorithm = "BALANCE_METHOD"
  THEN Max(0, amount - Min(amount, t.pools[fund_attribute].total_amount))
  ELSE RedeemInvestmentProduct(t.pools[fund_attribute], amount).gain

\* the pool of the key exists and has a recorded ratio, so that a redemption
\* from it is carried out
Redeemable(t, fund_attribute) ==
  /\ t.pools[fund_attribute].exists
  /\ t.pools[fund_attribute].personal_ratio + t.pools[fund_attribute].company_ratio > 0

\* C17: a redemption of amount a from a pool whose total_amount t is positive
\* and smaller than a leaves total_amount, personal_amount and company_amount
\* at 0, never negative, and realizes the gain a - t.
C17_OverRedemptionZeroesPool ==
  [][ ( /\ ops' = ops + 1 /\ last_op'.kind = "redeem"
        /\ Redeemable(tracker, last_op'.fund_attribute)
        /\ tracker.pools[last_op'.fund_attribute].total_amount > 0
        /\ tracker.pools[last_op'.fund_attribute].total_amount < last_op'.amount ) =>
      LET key == last_op'.fund_attribute
      IN  /\ tracker'.pools[key].total_amount = 0
          /\ tracker'.pools[key].personal_amount = 0
          /\ tracker'.pools[key].company_amount = 0
          /\ realized_gain(tracker, last_op'.amount, key)
               = last_op'.amount - tracker.pools[key].total_amount ]_vars

\* C18: a redemption of amount a from a pool with latest ratios (rp, rc)
\* adds a*rp to the personal balance and a*rc to the company balance, and
\* adds the realized gain times rp and times rc to the two profit shares
\* (rounded to two decimals); the gain of a redemption from a positive pool
\* is what exceeds the pool total, so that 1,100,000 redeemed from a pool of
\* 1,000,000 at (0.2, 0.8) adds 20,000 and 80,000.
C18_RedemptionSplit ==
  [][ ( /\ ops' = ops + 1 /\ last_op'.kind = "redeem"
        /\ Redeemable(tracker, last_op'.fund_attribute) ) =>
      LET a == last_op'.amount
          pool == tracker.pools[last_op'.fund_attribute]
          rp == pool.personal_ratio
          rc == pool.company_ratio
          gain == IF pool.total_amount > 0
                  THEN Max(0, a - Min(a, pool.total_amount)) ELSE a
      IN  /\ tracker'.personal_balance = tracker.personal_balance + MulRatio(a, rp)
          /\ tracker'.company_balance = tracker.company_balance + MulRatio(a, rc)
          /\ tracker'.personal_profit_share
               = format_number(tracker.personal_profit_share + MulRatio(gain, rp))
          /\ tracker'.company_profit_share
               = format_number(tracker.company_profit_share + MulRatio(gain, rc)) ]_vars

\* C19: after one contribution t to a pool and then a redemption of a larger
\* amount a, the pool's total_amount is t - a, a negative total that carries
\* the gain, its realized_profit_history is still empty and its
\* cumulative_realized_profit still 0.
C19_OverRedemptionGoesNegative ==
  [][ ( /\ ops' = ops + 1 /\ last_op'.kind = "redeem"
        /\ Redeemable(tracker, last_op'.fund_attribute)
        /\ tracker.pools[last_op'.fund_attribute].total_amount > 0
        /\ tracker.pools[last_op'.fund_attribute].cumulative_purchase
             = tracker.pools[last_op'.fund_attribute].total_amount
        /\ tracker.pools[last_op'.fund_attribute].cumulative_redemption = 0
        /\ tracker.pools[last_op'.fund_attribute].total_amount < last_op'.amount ) =>
      LET key == last_op'.fund_attribute
      IN  /\ tracker'.pools[key].total_amount
               = tracker.pools[key].total_amount - last_op'.amount
          /\ tracker'.pools[key].realized_profit_history = <<>>
          /\ tracker'.pools[key].cumulative_realized_profit = 0 ]_vars

\* C20: a contribution of amount a, split (sp, sc), to a pool whose
\* total_amount is negative appends |total_amount| to realized_profit_history
\* and adds it to cumulative_realized_profit, sets the amounts from the new
\* contribution alone (a, a*sp, a*sc) and the latest ratios to (sp, sc); a
\* contribution to a pool whose total_amount is not negative appends nothing.
C20_ResetOnNegative ==
  [][ ( /\ ops' = ops + 1 /\ last_op'.kind = "debit"
        /\ is_investment_product(last_op'.fund_attribute)
        /\ tracker'.pools[last_op'.fund_attribute].cumulative_purchase
             = tracker.pools[last_op'.fund_attribute].cumulative_purchase
               + last_op'.amount ) =>
      LET a == last_op'.amount
          old == tracker.pools[last_op'.fund_attribute]
          new == tracker'.pools[last_op'.fund_attribute]
      IN  IF old.exists /\ old.total_amount < 0
          THEN /\ new.realized_profit_history
                    = Append(old.realized_profit_history, - old.total_amount)
               /\ new.cumulative_realized_profit
                    = old.cumulative_realized_profit - old.total_amount
               /\ new.total_amount = a
               /\ new.personal_amount = MulRatio(a, ret'.personal_ratio)
               /\ new.company_amount = MulRatio(a, ret'.company_ratio)
               /\ new.personal_ratio = ret'.personal_ratio
               /\ new.company_ratio = ret'.company_ratio
          ELSE new.realized_profit_history
                 = (IF old.exists THEN old.realized_profit_history ELSE <<>>) ]_vars

\* C21: a redemption on an existing pool whose two latest ratios are both
\* zero changes no state: balances, counters and every field of the pool are
\* after the call what they were before it.
C21_ZeroRatioRedemptionNoChange ==
  [][ ( /\ ops' = ops + 1 /\ last_op'.kind = "redeem"
        /\ tracker.pools[last_op'.fund_attribute].exists
        /\ tracker.pools[last_op'.fund_attribute].personal_ratio = 0
        /\ tracker.pools[last_op'.fund_attribute].company_ratio = 0 ) =>
      tracker' = tracker ]_vars

\* C22: a redemption whose pool key never received a contribution is taken as
\* a personal credit: the personal balance grows by the full amount (FIFO:
\* one personal slice is enqueued), the company balance, the counters and
\* the pools are unchanged, no pool is created, and the ratios are (1, 0).
C22_UnknownRedemptionIsPersonal ==
  [][ ( /\ ops' = ops + 1 /\ last_op'.kind = "redeem"
        /\ ~tracker.pools[last_op'.fund_attribute].exists ) =>
      /\ tracker' =
           [tracker EXCEPT
              !.personal_balance = @ + last_op'.amount,
              !.queue = IF tracker.algorithm = "FIFO"
                        THEN Append(@, Slice(last_op'.amount, "personal", ops'))
                        ELSE @]
      /\ ~tracker'.pools[last_op'.fund_attribute].exists
      /\ ret'.personal_ratio = RATIO_ONE /\ ret'.company_ratio = 0 ]_vars

\* C22 witness: a FIFO redemption of an unknown pool left a personal slice
C22_Witness ==
  /\ tracker.algorithm = "FIFO"
  /\ last_op.kind = "redeem"
  /\ ~tracker.pools[last_op.fund_attribute].exists
  /\ Len(tracker.queue) > 0
  /\ tracker.queue[Len(tracker.queue)] = Slice(last_op.amount, "personal", ops)
  /\ ret.personal_ratio = RATIO_ONE

\* C23: a debit of any attribute class made while both balances are zero
\* returns the ratios (0, 0) and leaves the whole tracker as it was: balances,
\* counters, queue and every pool (no pool is created or grown).
C23_EmptyDebitNoChange ==
  [][ ( /\ ops' = ops + 1 /\ last_op'.kind = "debit"
        /\ tracker.personal_balance = 0 /\ tracker.company_balance = 0 ) =>
      /\ tracker' = tracker
      /\ ret'.personal_ratio = 0 /\ ret'.company_ratio = 0 ]_vars

\* what a non-investment debit took from the two balances together
Removed(before, after) ==
  (before.personal_balance + before.company_balance)
  - (after.personal_balance + after.company_balance)

\* the shortfall of a debit is not exactly the tolerance (a comparison the
\* floating-point code does not settle)
ClearShortfall(t, amount) ==
  amount - (t.personal_balance + t.company_balance) # BALANCE_TOLERANCE

ConsumedFromHead(before, after, k) ==
  \/ after = SubSeq(before, k + 1, Len(before))
  \/ /\ k < Len(before)
     /\ Len(after) = Len(before) - k
     /\ after[1].owner = before[k + 1].owner
     /\ after[1].ts = before[k + 1].ts
     /\ after[1].amount > 0 /\ after[1].amount < before[k + 1].amount
     /\ Tail(after) = SubSeq(before, k + 2, Len(before))

\* C25: a FIFO debit consumes slices from the head of the queue in arrival
\* order: the slices ahead of the last one touched are removed whole, at most
\* one slice is consumed in part and its remainder stays at the head with its
\* owner and timestamp, and the slices behind it keep their content and order.
C25_FifoConsumesFromHead ==
  [][ ( /\ tracker.algorithm = "FIFO"
        /\ ops' = ops + 1 /\ last_op'.kind = "debit" ) =>
      \E k \in 0..Len(tracker.queue) :
         ConsumedFromHead(tracker.queue, tracker'.queue, k) ]_vars

\* C25 witness: a FIFO debit removed a slice whole, took part of the next and
\* left a later slice behind it
C25_Witness ==
  /\ tracker.algorithm = "FIFO"
  /\ last_op.kind = "debit"
  /\ Len(tracker.queue) >= 2
  /\ tracker.queue[1].amount = 2 * CENT
  /\ tracker.queue[1].ts < tracker.queue[2].ts
  /\ tracker.queue[2].ts < ops

\* C26: the FIFO queue never holds a slice of amount zero, after any
\* operation: exact debits remove the slices they match, and credits and
\* redemptions enqueue only strictly positive portions.
C26_NoZeroSlice ==
  tracker.algorithm = "FIFO" =>
    \A i \in 1..Len(tracker.queue) : tracker.queue[i].amount # 0

\* C27: the opening balance seeded into the tracker is the recorded balance
\* of the first row minus its credit plus its debit, for a first row that is
\* a credit and for one that is a debit (the unused cell blank or zero), and
\* a positive opening balance is all company money.
C27_OpeningBalanceFormula ==
  (seeded /\ row_no = 0 /\ last_op.kind = "initialize") =>
    LET opening == row.balance - row.credit + row.debit
    IN  /\ last_op.amount = opening
        /\ opening > 0 => /\ tracker.company_balance = opening
                          /\ tracker.personal_balance = 0

\* C28: while the tracker has both balances at zero and no misuse or advance
\* recorded, as it is from a non-positive opening balance until the first
\* credit row, a debit of any attribute, investment debits included, leaves
\* misuse and advance at 0 and the balances at zero; so both counters are 0
\* on every row before the first credit.
C28_NoMisuseBeforeFirstCredit ==
  [][ ( /\ ops' = ops + 1 /\ last_op'.kind = "debit"
        /\ tracker.personal_balance = 0 /\ tracker.company_balance = 0
        /\ tracker.misuse = 0 /\ tracker.advance = 0 ) =>
      /\ tracker'.misuse = 0 /\ tracker'.advance = 0
      /\ tracker'.personal_balance = 0 /\ tracker'.company_balance = 0 ]_vars

\* C28 witness: three debits, one of them an investment debit, on a tracker
\* that never received money
C28_Witness ==
  /\ ops = 3 /\ last_op.kind = "debit"
  /\ ~tracker.initialized /\ tracker.queue = <<>>
  /\ tracker.personal_balance = 0 /\ tracker.company_balance = 0
  /\ \E k \in PoolKeys : /\ tracker.pools[k].cumulative_purchase > 0
                         /\ tracker.pools[k].cumulative_redemption = 0
  /\ tracker.misuse = 0 /\ tracker.advance = 0

\* C29: a redemption of amount a from a Balance-Method pool with total t and
\* latest ratios (rp, rc) adds matched_cost * rc to the principal returned to
\* the company and matched_cost * rp to the principal returned to the
\* personal balance (each within 0.01), where matched_cost is min(a, t) when
\* t > 0 and 0 otherwise; the personal counter is credited also when rc = 0.
C29_ReturnedPrincipal ==
  [][ ( /\ tracker.algorithm = "BALANCE_METHOD"
        /\ ops' = ops + 1 /\ last_op'.kind = "redeem"
        /\ Redeemable(tracker, last_op'.fund_attribute) ) =>
      LET a == last_op'.amount
          pool == tracker.pools[last_op'.fund_attribute]
          matched_cost == IF pool.total_amount > 0
                          THEN Min(a, pool.total_amount) ELSE 0
      IN  /\ Abs(tracker'.returned_company_principal
                 - (tracker.returned_company_principal
                    + MulRatio(matched_cost, pool.company_ratio)))
               <= BALANCE_TOLERANCE
          /\ Abs(tracker'.returned_personal_principal
                 - (tracker.returned_personal_principal
                    + MulRatio(matched_cost, pool.personal_ratio)))
               <= BALANCE_TOLERANCE ]_vars


\* two values of a pool ratio that stand for the same float: exactly equal
\* when nothing is left in the pool, and otherwise so close that, applied to
\* what is left, they differ by no more than one unit of the amounts (the
\* quotient 累计个人金额 / 总金额 is re-taken from amounts that both shrank by
\* the same factor, each rounded to a unit)
SameRatio(r0, r1, total_after) ==
  IF total_after > 0 THEN Abs(r1 - r0) * total_after <= RATIO_ONE
  ELSE r1 = r0

\* C30: a redemption from an existing pool leaves the pool's latest personal
\* and company ratios as they were, whether the pool's total was positive,
\* zero or negative before it and whatever is left after it; where the
\* Balance-Method tracker re-takes the quotients after the redemption they
\* come out as the same ratios.
C30_RedemptionKeepsRatios ==
  [][ ( /\ ops' = ops + 1 /\ last_op'.kind = "redeem"
        /\ tracker.pools[last_op'.fund_attribute].exists ) =>
      LET before == tracker.pools[last_op'.fund_attribute]
          after == tracker'.pools[last_op'.fund_attribute]
      IN  /\ after.exists
          /\ SameRatio(before.personal_ratio, after.personal_ratio,
                       after.total_amount)
          /\ SameRatio(before.company_ratio, after.company_ratio,
                       after.total_amount) ]_vars

\* a mixed pool that a redemption has left with a positive total, so that the
\* Balance-Method tracker has re-taken its quotients
C30_Witness ==
  /\ last_op.kind = "redeem"
  /\ LET pool == tracker.pools[last_op.fund_attribute]
     IN  /\ pool.exists /\ pool.cumulative_redemption > 0
         /\ pool.personal_ratio > 0 /\ pool.company_ratio > 0
         /\ pool.total_amount > 0
         /\ tracker.algorithm = "BALANCE_METHOD"


\* C31: cumulative misuse changes only while a debit of a personal-class or
\* investment-class attribute is processed, and cumulative advance only while
\* a company-class debit is processed; seeding the opening balance, credits,
\* redemptions, other-class debits and rows with no direction leave both
\* counters as they were.
C31_CountersMoveOnlyOnTheirDebits ==
  [][ LET type == fund_attribute_type(last_op'.fund_attribute)
          debit == last_op'.kind = "debit"
      IN  /\ tracker'.misuse # tracker.misuse =>
                debit /\ (type = "personal"
                          \/ is_investment_product(last_op'.fund_attribute))
          /\ tracker'.advance # tracker.advance =>
                debit /\ type = "company"
                      /\ ~is_investment_product(last_op'.fund_attribute) ]_vars

\* a row with no direction, or an other-class debit that took money, has
\* been processed by a tracker that carries misuse or advance
C31_Witness ==
  /\ row_no >= 2
  /\ tracker.misuse + tracker.advance > 0
  /\ \/ last_op.kind = "none"
     \/ /\ last_op.kind = "debit"
        /\ fund_attribute_type(last_op.fund_attribute) = "other"
        /\ HasClause(ret.label, "personal_payment")


\* ------------------------------------------- two trackers, side by side
\* the attribute labels of ordinary credit rows: with a receivable/payable
\* keyword, with the bare keyword, with none
CreditLabels ==
  PersonalLabels \cup CompanyLabels \cup BarePersonalLabels
  \cup BareCompanyLabels \cup OtherLabels

\* a fresh FIFO tracker and a fresh Balance-Method tracker
CreditsInit ==
  /\ tracker = NewTracker("FIFO")
  /\ twin = NewTracker("BALANCE_METHOD")
  /\ ret = NoReturn /\ twin_ret = NoReturn
  /\ last_op = Op("none", 0, "")
  /\ ops = 0
  /\ PipelineIdle
  /\ ValidatorIdle
  /\ ServiceIdle

\* 初始化余额 on both trackers, with the same arguments
InitializeBoth ==
  /\ ops = 0
  /\ \E opening \in OpeningBalances, owner \in Owners :
       /\ tracker' = InitializeBalance(tracker, opening, owner)
       /\ twin' = InitializeBalance(twin, opening, owner)
       /\ last_op' = Op("initialize", opening, owner)
  /\ ret' = NoReturn /\ twin_ret' = NoReturn
  /\ UNCHANGED <<ops, pipe, val, svc>>

\* 处理资金流入 on both trackers, with the same arguments
CreditBoth ==
  /\ ops < MaxOps
  /\ \E amount \in Amounts, fund_attribute \in CreditLabels :
       LET r == ProcessCredit(tracker, amount, fund_attribute, ops + 1)
           s == ProcessCredit(twin, amount, fund_attribute, ops + 1)
       IN  /\ tracker' = r.tracker /\ ret' = Returned(r)
           /\ twin' = s.tracker /\ twin_ret' = Returned(s)
           /\ last_op' = Op("credit", amount, fund_attribute)
  /\ ops' = ops + 1
  /\ UNCHANGED <<pipe, val, svc>>

CreditsNext == InitializeBoth \/ CreditBoth

SpecCredits == CreditsInit /\ [][CreditsNext]_vars

\* C32: fed the same ordinary credits of personal-, company- or other-class
\* labels from the same starting balances, the FIFO tracker and the
\* Balance-Method tracker return the same ratios for every credit and hold
\* the same personal and company balances.
C32_TrackersAgreeOnCredits ==
  /\ tracker.personal_balance = twin.personal_balance
  /\ tracker.company_balance = twin.company_balance
  /\ last_op.kind = "credit" =>
       /\ ret.personal_ratio = twin_ret.personal_ratio
       /\ ret.company_ratio = twin_ret.company_ratio


\* C33: 初始化余额 takes effect only on a tracker not yet initialized and with
\* an opening balance above 0: then the balance of the named owner becomes the
\* opening balance, the FIFO queue gains one slice of that amount and owner,
\* the tracker is marked initialized and nothing else changes; any other call
\* leaves the whole tracker as it was.
C33_InitializeOnce ==
  [][ (last_op'.kind = "initialize" /\ ops' = ops) =>
      LET opening == last_op'.amount
          owner == last_op'.fund_attribute
      IN  IF ~tracker.initialized /\ opening > 0
          THEN /\ tracker'.initialized
               /\ tracker'.personal_balance =
                    (IF owner = "personal" THEN opening
                     ELSE tracker.personal_balance)
               /\ tracker'.company_balance =
                    (IF owner = "company" THEN opening
                     ELSE tracker.company_balance)
               /\ tracker'.queue =
                    (IF tracker.algorithm = "FIFO"
                     THEN tracker.queue \o <<Slice(opening, owner, 0)>>
                     ELSE tracker.queue)
               /\ Counters(tracker') = Counters(tracker)
               /\ tracker'.pools = tracker.pools
               /\ tracker'.algorithm = tracker.algorithm
          ELSE tracker' = tracker ]_vars

\* an initialized FIFO tracker that was just asked to initialize with a
\* positive personal opening balance while it holds company money only: the
\* call came too late and did nothing
C33_Witness ==
  /\ last_op.kind = "initialize"
  /\ last_op.amount > 0 /\ last_op.fund_attribute = "personal"
  /\ tracker.algorithm = "FIFO"
  /\ tracker.initialized
  /\ tracker.personal_balance = 0
  /\ tracker.company_balance = last_op.amount
  /\ Len(tracker.queue) = 1


\* ------------------------------------- ledgers that start from nothing
\* recorded balances a ledger of 2-cent credits and 1-cent debits can reach
\* from an opening balance of 0
VBalancesFromZero == {2 * CENT, 4 * CENT, 6 * CENT}

\* the caller holds a preprocessed frame of an account opened empty and calls
\* validate_flow_integrity
ValidatorInitFromZero ==
  /\ tracker = NewTracker("FIFO")
  /\ ret = NoReturn
  /\ last_op = Op("none", 0, "")
  /\ ops = 0
  /\ PipelineIdle
  /\ TwinIdle
  /\ ServiceIdle
  /\ \E n \in 2..MaxRowsV :
       \E k \in Splits(n), f \in [1..n -> VFlows],
          b \in [1..n -> VBalancesFromZero] :
          /\ heap = <<Ledger(n, k[1], k[2], f, b)>>
          /\ input = Ledger(n, k[1], k[2], f, b)
  /\ df = 1 /\ result_df = 0 /\ idx = 0
  /\ validation_errors = <<>> /\ optimization_count = 0
  /\ optimization_failed = FALSE /\ report = NoReport
  /\ calls = 1
  /\ pc = "start"

SpecValidatorFromZero == ValidatorInitFromZero /\ [][ValidatorNext]_vars

\* the recorded balances chain from a balance of 0 under the ordering
ChainsFromZero(o) ==
  \A j \in 1..Len(o) :
    Fits(input[o[j]], IF j = 1 THEN 0 ELSE input[o[j - 1]].balance)

\* at no step of the ordering does a row placed later fit as well, and no row
\* of the cluster misses a balance it could follow by exactly the tolerance
ClearFromZero(o, S) ==
  /\ \A j \in 1..Len(o) : \A m \in (j + 1)..Len(o) :
       ~Fits(input[o[m]], IF j = 1 THEN 0 ELSE input[o[j - 1]].balance)
  /\ \A p \in S :
       /\ Abs(input[p].balance - (input[p].credit - input[p].debit))
            # BALANCE_TOLERANCE
       /\ \A q \in S \ {p} :
            Abs(input[p].balance
                - (input[q].balance + input[p].credit - input[p].debit))
              # BALANCE_TOLERANCE

\* C34: when the first mismatch lies in the cluster of the first row and the
\* rows of that cluster chain from a balance of 0 in some order (with no
\* second candidate at any step), the validator returns the cluster in that
\* order and counts a repair.
C34_FirstClusterRepairedFromZero ==
  pc = "done" =>
    LET S == Cluster(input[1].ts)
    IN  (Cardinality(S) >= 2 /\ \E p \in S : p >= 2 /\ FirstBreak(p)) =>
          \A o \in Orderings(S) :
            (ChainsFromZero(o) /\ ClearFromZero(o, S)) =>
              /\ \A k \in 1..Len(o) :
                   Returned_rows[SortedSeq(o)[k]] = input[o[k]]
              /\ report.optimizations_count >= 1


\* the first mismatch of the input lies in the cluster, which does not hold
\* the first row and whose rows chain from the balance of the row before it
\* in some order
Repairable(S) ==
  /\ Cardinality(S) >= 2 /\ 1 \notin S
  /\ ClearCut(S)
  /\ \E p \in S : FirstBreak(p)
  /\ ChainingOrderings(S) # {}

\* no irreparable failure is reported at a row of the cluster
NoFailureIn(S) ==
  \A e \in 1..Len(validation_errors) : validation_errors[e].row \notin S

MaxSteps == 7

\* a fresh Balance-Method tracker
PartialInit ==
  /\ tracker = NewTracker("BALANCE_METHOD")
  /\ ret = NoReturn
  /\ last_op = Op("none", 0, "")
  /\ ops = 0
  /\ PipelineIdle
  /\ ValidatorIdle
  /\ TwinIdle
  /\ ServiceIdle

\* 处理资金流入: 0.01 of personal money or 0.03 of company money comes in
CreditOwned ==
  /\ ops < MaxSteps
  /\ \E c \in {<<CENT, "personal_payable">>, <<3 * CENT, "company_payable">>} :
       LET r == ProcessCredit(tracker, c[1], c[2], ops + 1)
       IN  /\ tracker' = r.tracker
           /\ ret' = Returned(r)
           /\ last_op' = Op("credit", c[1], c[2])
  /\ ops' = ops + 1
  /\ UNCHANGED <<pipe, val, twins, svc>>

\* 处理资金流出 with an investment attribute: 0.04 goes into the pool
Invest ==
  /\ ops < MaxSteps
  /\ \E fund_attribute \in PoolKeys :
       LET r == ProcessDebit(tracker, 4 * CENT, fund_attribute, ops + 1)
       IN  /\ tracker' = r.tracker
           /\ ret' = Returned(r)
           /\ last_op' = Op("debit", 4 * CENT, fund_attribute)
  /\ ops' = ops + 1
  /\ UNCHANGED <<pipe, val, twins, svc>>

\* 处理投资产品赎回: 0.01 comes back from the pool
RedeemPart ==
  /\ ops < MaxSteps
  /\ \E fund_attribute \in PoolKeys :
       LET r == ProcessRedemption(tracker, CENT, fund_attribute, ops + 1)
       IN  /\ tracker' = r.tracker
           /\ ret' = Returned(r)
           /\ last_op' = Op("redeem", CENT, fund_attribute)
  /\ ops' = ops + 1
  /\ UNCHANGED <<pipe, val, twins, svc>>

PartialNext == CreditOwned \/ Invest \/ RedeemPart

SpecPartial == PartialInit /\ [][PartialNext]_vars

\* C36 as stated: in the Balance-Method tracker the principal returned to the
\* company never exceeds cumulative misuse.
C36_ReturnedWithinMisuse ==
  tracker.algorithm = "BALANCE_METHOD" =>
    tracker.returned_company_principal <= tracker.misuse

\* C36 amended: the principal returned to the company exceeds cumulative
\* misuse by no more than the rounding of the two counters, half a cent for
\* each call made on the tracker.
C36_ReturnedWithinMisuseUpToRounding ==
  tracker.algorithm = "BALANCE_METHOD" =>
    tracker.returned_company_principal
      <= tracker.misuse + ops * (CENT \div 2)

\* C36 witness: redemptions have returned company principal out of a pool
\* that company money was drawn into, and the rounded counter of returned
\* principal has passed the counter of misuse
C36_Witness ==
  /\ tracker.algorithm = "BALANCE_METHOD"
  /\ last_op.kind = "redeem"
  /\ tracker.misuse > 0
  /\ tracker.returned_company_principal > tracker.misuse


\* C37: an investment debit moves money from the balances into the pool and
\* loses none: the pool's total and its cumulative purchase grow by what left
\* the personal and company balances, also when less was available than the
\* debit asked for.
C37_InvestmentDebitConserves ==
  [][ ( /\ ops' = ops + 1 /\ last_op'.kind = "debit"
        /\ is_investment_product(last_op'.fund_attribute) ) =>
      LET before == tracker.pools[last_op'.fund_attribute]
          after == tracker'.pools[last_op'.fund_attribute]
          removed == (tracker.personal_balance + tracker.company_balance)
                     - (tracker'.personal_balance + tracker'.company_balance)
      IN  /\ after.total_amount - before.total_amount = removed
          /\ after.cumulative_purchase - before.cumulative_purchase = removed ]_vars


\* C38: every report of validate_flow_integrity is consistent with the run
\* that made it: at most one error, recorded at the row where the loop
\* stopped, which is the first mismatch of the working frame; is_valid exactly
\* when there is no error and optimization_failed exactly when there is one;
\* has_modifications exactly when the repair count is positive, which is
\* exactly when the returned rows differ from the rows passed in at this
\* call, so nothing counted in an earlier call on the same validator shows.
C38_ReportSelfConsistent ==
  pc = "done" =>
    /\ report.errors_count \in {0, 1}
    /\ report.errors_count = Len(validation_errors)
    /\ report.is_valid <=> report.errors_count = 0
    /\ report.optimization_failed <=> report.errors_count = 1
    /\ report.has_modifications <=> report.optimizations_count > 0
    /\ report.optimizations_count = optimization_count
    /\ report.has_modifications <=> Returned_rows # input
    /\ report.total_rows = Len(input)
    /\ report.errors_count = 1 =>
         LET rows == heap[result_df]
         IN  /\ validation_errors[1].row = idx
             /\ ~check_balance_continuity(rows[idx - 1], rows[idx])
             /\ \A p \in 2..(idx - 1) :
                  check_balance_continuity(rows[p - 1], rows[p])

\* C38 witness: the second call on the same validator, on the frame the first
\* call repaired, found the mismatch the first call could not repair and no
\* repair of its own
C38_Witness ==
  /\ pc = "done" /\ calls = 2
  /\ report.errors_count = 1 /\ report.optimization_failed
  /\ report.optimizations_count = 0 /\ ~report.has_modifications


\* ----------------------------------------- the time-point query service
\* calls of load_data made on one service
MaxLoads == 2
\* calls of query_time_point made on one service
MaxQueries == 2
\* TimePointQueryService.MAX_HISTORY_SIZE
MAX_HISTORY_SIZE == 100

\* the transactions of a file: money comes in, goes into a pool, comes back
\* from the pool
QueryFlows ==
  {[credit |-> 4 * CENT, debit |-> 0, fund_attribute |-> "personal_payable"]}
  \cup {[credit |-> 0, debit |-> 3 * CENT, fund_attribute |-> k] : k \in PoolKeys}
  \cup {[credit |-> 4 * CENT, debit |-> 0, fund_attribute |-> k] : k \in PoolKeys}
\* by how much the recorded balance of the last row of a file is off
QueryDrifts == {0, 2 * CENT}

\* the recorded balance of row p of a file with opening balance o, when
\* every row continues the row before
RECURSIVE RecordedBalance(_, _, _)
RecordedBalance(o, f, p) ==
  IF p = 0 THEN o
  ELSE RecordedBalance(o, f, p - 1) + f[p].credit - f[p].debit

\* a frame as 预处理财务数据 returns it: rows in time order, the cell of the
\* amount a row does not have left blank, and no result columns yet
QueryLedger(n, o, f, e) ==
  [p \in 1..n |->
     [credit |-> f[p].credit, debit |-> f[p].debit,
      credit_given |-> f[p].credit > 0, debit_given |-> f[p].debit > 0,
      balance |-> RecordedBalance(o, f, p) + (IF p = n THEN e ELSE 0),
      fund_attribute |-> f[p].fund_attribute,
      behavior |-> <<>>, personal_ratio |-> 0, company_ratio |-> 0]]

\* the files load_data is given: every row at its own timestamp, the
\* recorded balance of the first row as the opening balance makes it, and
\* the last row continuing the row before or not
QueryLedgers ==
  UNION {{QueryLedger(n, o, f, e) :
            o \in OpeningBalances, f \in [1..n -> QueryFlows],
            e \in IF n = 1 THEN {0} ELSE QueryDrifts} :
         n \in 1..MaxRows}

\* validate_flow_integrity on a frame whose rows all differ in timestamp: a
\* row that does not continue the row before has no rows to be reordered
\* with, so the report is valid when every row continues the row before and
\* reports a failed optimization otherwise
flow_integrity_report(rows) ==
  LET broken == {p \in 2..Len(rows) :
                   ~check_balance_continuity(rows[p - 1], rows[p])}
  IN  [is_valid |-> broken = {}, optimization_failed |-> broken # {},
       optimizations_count |-> 0]

\* load_data: the frame is stored as soon as it is preprocessed; the row
\* count is set and the history cleared only after the validation passed.
\* A file that cannot be read leaves the frame None.
LoadData ==
  /\ loads < MaxLoads
  /\ \E file \in QueryLedgers \cup {NoData} :
       /\ data' = file
       /\ IF file = NoData \/ flow_unusable(flow_integrity_report(file))
          THEN UNCHANGED <<total_rows, query_history>>
          ELSE /\ total_rows' = Len(file)
               /\ query_history' = <<>>
  /\ loads' = loads + 1
  /\ UNCHANGED <<query_result, queries, trk, pipe, val, twins>>

\* _reset_tracker: a new tracker, seeded with the opening balance of the
\* frame when that is positive
reset_tracker(alg, rows) ==
  LET opening == IF Len(rows) = 0 THEN 0 ELSE InitialBalance(rows[1])
  IN  IF opening > 0
      THEN InitializeBalance(NewTracker(alg), opening, "company")
      ELSE NewTracker(alg)

\* _process_to_row: rows i..target_row are fed to the tracker, and the
\* behaviour and the ratios each call returns are written into the frame; a
\* row the frame does not have ends the loop with a failure
RECURSIVE process_to_row(_, _, _, _)
process_to_row(t, rows, i, target_row) ==
  IF i > target_row THEN [success |-> TRUE, tracker |-> t, data |-> rows]
  ELSE IF i > Len(rows) THEN [success |-> FALSE, tracker |-> t, data |-> rows]
  ELSE LET r == ProcessSingleRow(t, rows[i], i)
       IN  process_to_row(r.tracker,
                          [rows EXCEPT ![i].behavior = r.label,
                                       ![i].personal_ratio = r.personal_ratio,
                                       ![i].company_ratio = r.company_ratio],
                          i + 1, target_row)

\* _get_tracker_state
get_tracker_state(t) ==
  [personal_balance |-> t.personal_balance,
   company_balance |-> t.company_balance,
   total_balance |-> t.personal_balance + t.company_balance,
   total_misappropriation |-> t.misuse,
   total_advance |-> t.advance,
   total_returned_company |-> t.returned_company_principal,
   total_returned_personal |-> t.returned_personal_principal,
   personal_profit |-> t.personal_profit_share,
   company_profit |-> t.company_profit_share,
   funding_gap |-> StateFundingGap(t),
   is_initialized |-> t.initialized]

\* a failure returned by query_time_point: no tracker state in it
QueryFailure(target_row) ==
  [success |-> FALSE, target_row |-> target_row, tracker_state |-> <<>>]

\* _save_to_history: the key fields of the result, the oldest entries dropped
\* beyond MAX_HISTORY_SIZE
save_to_history(history, result) ==
  LET h == Append(history, [id |-> Len(history) + 1,
                            target_row |-> result.target_row,
                            success |-> result.success,
                            tracker_state |-> result.tracker_state])
  IN  IF Len(h) > MAX_HISTORY_SIZE
      THEN SubSeq(h, Len(h) - MAX_HISTORY_SIZE + 1, Len(h))
      ELSE h

\* query_time_point on a service of the Balance-Method algorithm: the
\* argument is checked against the frame and the row count, the tracker is
\* reset, the rows are replayed, and a successful result goes to the history
QueryTimePoint ==
  /\ queries < MaxQueries
  /\ \E target_row \in 0..(MaxRows + 1) :
       IF data = NoData \/ target_row < 1 \/ target_row > total_rows
       THEN /\ query_result' = QueryFailure(target_row)
            /\ UNCHANGED <<tracker, data, query_history>>
       ELSE LET p == process_to_row(reset_tracker("BALANCE_METHOD", data),
                                    data, 1, target_row)
                result == [success |-> TRUE, target_row |-> target_row,
                           tracker_state |-> get_tracker_state(p.tracker)]
            IN  /\ tracker' = p.tracker
                /\ data' = p.data
                /\ query_result' = IF p.success THEN result
                                   ELSE QueryFailure(target_row)
                /\ query_history' = IF p.success
                                    THEN save_to_history(query_history, result)
                                    ELSE query_history
  /\ queries' = queries + 1
  /\ UNCHANGED <<ret, last_op, ops, total_rows, loads, pipe, val, twins>>

\* a service as its constructor leaves it
ServiceInit ==
  /\ tracker = NewTracker("BALANCE_METHOD")
  /\ ret = NoReturn
  /\ last_op = Op("none", 0, "")
  /\ ops = 0
  /\ PipelineIdle
  /\ ValidatorIdle
  /\ TwinIdle
  /\ ServiceIdle

ServiceNext == LoadData \/ QueryTimePoint

SpecService == ServiceInit /\ [][ServiceNext]_vars

\* the rows of a frame as they were loaded, without the result columns
AsLoaded(rows) ==
  [p \in 1..Len(rows) |->
     [rows[p] EXCEPT !.behavior = <<>>, !.personal_ratio = 0,
                     !.company_ratio = 0]]

\* rows i..n fed one after another to a tracker
RECURSIVE Replay(_, _, _, _)
Replay(t, rows, i, n) ==
  IF i > n THEN t
  ELSE Replay(ProcessSingleRow(t, rows[i], i).tracker, rows, i + 1, n)

\* C39: a query for row n in 1..total_rows succeeds and returns the state of
\* a fresh tracker seeded with the opening balance and fed rows 1..n,
\* whatever was queried before; a query for any other n, or with no data
\* loaded, fails and leaves the query history as it was.
C39_QueryReplaysFromScratch ==
  [][queries' = queries + 1 =>
       LET n == query_result'.target_row
       IN  IF data # NoData /\ 1 <= n /\ n <= total_rows
           THEN /\ query_result'.success
                /\ query_result'.tracker_state
                     = get_tracker_state(
                         Replay(reset_tracker("BALANCE_METHOD", AsLoaded(data)),
                                AsLoaded(data), 1, n))
           ELSE /\ ~query_result'.success
                /\ query_history' = query_history]_vars

====
